---- MODULE Spec2Model ----
(***************************************************************************)
(* Model of the pattern-overlay logic of the TradingViewChart component    *)
(* (src/react-ts/src/components/TradingViewChart.tsx): the effect that     *)
(* classifies the markers, groups the bowl markers into pattern instances, *)
(* synthesises one U-shaped curve per instance and reconciles the line     *)
(* series kept in patternSeriesRefs with the instances of the cycle.       *)
(*                                                                         *)
(* Strings are sequences of one-character strings, so that toLowerCase,    *)
(* toUpperCase and includes are computed and not assumed.  An optional     *)
(* field is None (absent, undefined or null) or Some(v).  Curve values are *)
(* exact fractions [num, den]; the source computes them in floating point. *)
(***************************************************************************)
EXTENDS Integers, Sequences, FiniteSets, TLC

(* ---------------------------------------------------------------------- *)
(* Optional values                                                         *)
(* ---------------------------------------------------------------------- *)
None == <<>>
Some(v) == <<v>>
IsSome(o) == o # <<>>
Get(o) == o[1]

(* ---------------------------------------------------------------------- *)
(* Strings                                                                 *)
(* ---------------------------------------------------------------------- *)
UPPER == <<"A","B","C","D","E","F","G","H","I","J","K","L","M",
           "N","O","P","Q","R","S","T","U","V","W","X","Y","Z">>
LOWER == <<"a","b","c","d","e","f","g","h","i","j","k","l","m",
           "n","o","p","q","r","s","t","u","v","w","x","y","z">>

Chars == {UPPER[j] : j \in 1..Len(UPPER)} \cup {LOWER[j] : j \in 1..Len(LOWER)}
            \cup {" ", "-", "#", "0", "1", "2", "3", "4", "5", "6", "7", "8", "9"}

LowerOf == [c \in Chars |->
              IF \E j \in 1..Len(UPPER) : UPPER[j] = c
              THEN LOWER[CHOOSE j \in 1..Len(UPPER) : UPPER[j] = c]
              ELSE c]

UpperOf == [c \in Chars |->
              IF \E j \in 1..Len(LOWER) : LOWER[j] = c
              THEN UPPER[CHOOSE j \in 1..Len(LOWER) : LOWER[j] = c]
              ELSE c]

toLowerCase(s) == [i \in 1..Len(s) |-> LowerOf[s[i]]]

toUpperCase(s) == [i \in 1..Len(s) |-> UpperOf[s[i]]]

includes(s, sub) ==
    \E i \in 0..(Len(s) - Len(sub)) : SubSeq(s, i + 1, i + Len(sub)) = sub

(* ---------------------------------------------------------------------- *)
(* Time constants of the source                                            *)
(* ---------------------------------------------------------------------- *)
DAY == 24 * 60 * 60
TIME_CLUSTER_THRESHOLD == 30 * 24 * 60 * 60
EXTEND_DAYS == 30

(* ---------------------------------------------------------------------- *)
(* Marker Classifier                                                       *)
(* ---------------------------------------------------------------------- *)
\* chartTitle.toLowerCase().includes("bowl")
isBowlPattern(chartTitle) == includes(toLowerCase(chartTitle), <<"b","o","w","l">>)

\* Mutant of hasBowlText: the text is compared without toUpperCase.
hasBowlTextCaseSensitive(m) ==
    IsSome(m.text) /\ includes(Get(m.text), <<"B","O","W","L">>)

\* m.text?.toUpperCase().includes("BOWL") === true
hasBowlText(m) ==
    IsSome(m.text) /\ includes(toUpperCase(Get(m.text)), <<"B","O","W","L">>)

\* The predicate of the bowlMarkers filter; isBowl is the effect's constant
\* isBowlPattern.
BowlFilter(m, isBowl) ==
    IF isBowl /\ IsSome(m.pattern_id)
    THEN TRUE
    ELSE hasBowlText(m)

\* Mutant of isBowlMarker: the title and pattern_id test is dropped.
isBowlMarkerTextOnly(m, isBowl) == hasBowlText(m)

\* The isBowlMarker expression of the otherMarkers filter.
isBowlMarker(m, isBowl) ==
    (isBowl /\ IsSome(m.pattern_id)) \/ hasBowlText(m)

\* Array.prototype.filter is SelectSeq: the elements passing the test, in order.
FilterBowl(markers, isBowl) ==
    LET T(m) == BowlFilter(m, isBowl) IN SelectSeq(markers, T)

FilterOther(markers, isBowl) ==
    LET T(m) == ~isBowlMarker(m, isBowl) IN SelectSeq(markers, T)

bowlMarkersOf(markers, chartTitle) ==
    CHOOSE r \in {FilterBowl(markers, b) : b \in {isBowlPattern(chartTitle)}} : TRUE

otherSourceMarkers(markers, chartTitle) ==
    CHOOSE r \in {FilterOther(markers, b) : b \in {isBowlPattern(chartTitle)}} : TRUE

(* ---------------------------------------------------------------------- *)
(* Pattern Clusterer                                                       *)
(* A Map<number, Marker[]> is the sequence of its entries [id, markers]    *)
(* in insertion order, the order in which forEach visits them.             *)
(* ---------------------------------------------------------------------- *)
MapHas(map, id) == \E i \in 1..Len(map) : map[i].id = id

\* if (!bowls.has(id)) bowls.set(id, []); bowls.get(id)!.push(marker);
MapPush(map, id, marker) ==
    IF MapHas(map, id)
    THEN [i \in 1..Len(map) |->
            IF map[i].id = id
            THEN [id |-> id, markers |-> Append(map[i].markers, marker)]
            ELSE map[i]]
    ELSE Append(map, [id |-> id, markers |-> <<marker>>])

\* marker.pattern_id != null ? Number(marker.pattern_id) : -1
PatternIdOf(marker) ==
    IF IsSome(marker.pattern_id) THEN Get(marker.pattern_id) ELSE -1

RECURSIVE GroupLoop(_, _)
GroupLoop(ms, map) ==
    IF ms = <<>> THEN map
    ELSE GroupLoop(Tail(ms), MapPush(map, PatternIdOf(Head(ms)), Head(ms)))

GroupByPatternId(bowlMarkers) == GroupLoop(bowlMarkers, <<>>)

\* Array.prototype.sort with the comparator a.time - b.time: a stable sort.
RECURSIVE InsertByTime(_, _)
InsertByTime(sorted, x) ==
    IF sorted = <<>> THEN <<x>>
    ELSE IF Head(sorted).time <= x.time
         THEN <<Head(sorted)>> \o InsertByTime(Tail(sorted), x)
         ELSE <<x>> \o sorted

RECURSIVE SortLoop(_, _)
SortLoop(rest, sorted) ==
    IF rest = <<>> THEN sorted
    ELSE SortLoop(Tail(rest), InsertByTime(sorted, Head(rest)))

SortByTime(seq) == SortLoop(seq, <<>>)

\* Mutant of StartsNewCluster: >= in place of >.
StartsNewClusterAtThreshold(lastTime, markerTime) ==
    lastTime = 0 \/ markerTime - lastTime >= TIME_CLUSTER_THRESHOLD

\* lastTime === 0 || markerTime - lastTime > TIME_CLUSTER_THRESHOLD
StartsNewCluster(lastTime, markerTime) ==
    lastTime = 0 \/ markerTime - lastTime > TIME_CLUSTER_THRESHOLD

\* The body of sortedMarkers.forEach, on the loop state [clusterId, lastTime, bowls].
ClusterStep(st, marker) ==
    LET clusterId == IF StartsNewCluster(st.lastTime, marker.time)
                     THEN st.clusterId + 1
                     ELSE st.clusterId
    IN [clusterId |-> clusterId,
        lastTime  |-> marker.time,
        bowls     |-> MapPush(st.bowls, clusterId, marker)]

RECURSIVE ClusterLoop(_, _)
ClusterLoop(ms, st) ==
    IF ms = <<>> THEN st
    ELSE ClusterLoop(Tail(ms), ClusterStep(st, Head(ms)))

\* Mutant of TimeClusters: the markers are clustered in the order received.
TimeClustersUnsorted(bowlMarkers) ==
    ClusterLoop(bowlMarkers,
                [clusterId |-> 0, lastTime |-> 0, bowls |-> <<>>]).bowls

TimeClusters(bowlMarkers) ==
    ClusterLoop(SortByTime(bowlMarkers),
                [clusterId |-> 0, lastTime |-> 0, bowls |-> <<>>]).bowls

\* bowls.size === 1 && bowls.has(-1) && bowlMarkers.length > 0
FallbackApplies(grouped, bowlMarkers) ==
    Len(grouped) = 1 /\ MapHas(grouped, -1) /\ Len(bowlMarkers) > 0

\* The Map `bowls` as it stands when the curves are drawn; each entry's
\* markers are sorted by time at the top of the drawing loop.
GroupBowls(bowlMarkers) ==
    LET grouped == GroupByPatternId(bowlMarkers) IN
    IF FallbackApplies(grouped, bowlMarkers)
    THEN TimeClusters(bowlMarkers)
    ELSE grouped

SortEntries(map) ==
    [i \in 1..Len(map) |-> [id |-> map[i].id, markers |-> SortByTime(map[i].markers)]]

(* ---------------------------------------------------------------------- *)
(* Curve Synthesizer                                                       *)
(* ---------------------------------------------------------------------- *)
Max(a, b) == IF a >= b THEN a ELSE b

Sq(x) == x * x

\* Math.min(...spanCandles.map((c) => c.low))
MinLow(spanCandles) ==
    CHOOSE v \in {spanCandles[i].low : i \in 1..Len(spanCandles)} :
        \A i \in 1..Len(spanCandles) : v <= spanCandles[i].low

\* spanCandles.findIndex((c) => c.low === minLow), 0-based
MinLowIndex(spanCandles) ==
    (CHOOSE i \in 1..Len(spanCandles) :
        /\ spanCandles[i].low = MinLow(spanCandles)
        /\ \A j \in 1..(i - 1) : spanCandles[j].low # MinLow(spanCandles)) - 1

\* Mutant of SpanCandles: the window excludes its two end times.
SpanCandlesExclusive(patternMarkers, formattedPriceData) ==
    LET firstTime == patternMarkers[1].time
        lastTime  == patternMarkers[Len(patternMarkers)].time
        extendedFirstTime == firstTime - EXTEND_DAYS * 24 * 60 * 60
        extendedLastTime  == lastTime + EXTEND_DAYS * 24 * 60 * 60
        InSpan(c) == c.time > extendedFirstTime /\ c.time < extendedLastTime
    IN SortByTime(SelectSeq(formattedPriceData, InSpan))

SpanCandles(patternMarkers, formattedPriceData) ==
    LET firstTime == patternMarkers[1].time
        lastTime  == patternMarkers[Len(patternMarkers)].time
        extendedFirstTime == firstTime - EXTEND_DAYS * 24 * 60 * 60
        extendedLastTime  == lastTime + EXTEND_DAYS * 24 * 60 * 60
        InSpan(c) == c.time >= extendedFirstTime /\ c.time <= extendedLastTime
    IN SortByTime(SelectSeq(formattedPriceData, InSpan))

\* One point of lineData for the candle c at 0-based position idx.  With
\* n1 = max(1, length - 1), m = minLowIndex and M = max(m, n1 - m):
\*   t = idx / n1, bottomPosition = m / n1, maxParabola = (M / n1)^2,
\*   bowlDepth = 1 - (idx - m)^2 / M^2          (1 when maxParabola = 0)
\*   edgeInterpolation = (startLow * (n1 - idx) + endLow * idx) / n1
\*   curvedValue = edgeInterpolation + (minLow - edgeInterpolation) * bowlDepth * 0.8
\*   value = 0.65 * curvedValue + 0.35 * c.low
\* written over the common denominator 100 * n1 * depthDen.
\* bowlDepth = 1 - normalizedParabola at 0-based position idx, as the
\* fraction num / den: with M = max(m, n1 - m),
\*   maxParabola = (M / n1)^2 and parabola = ((idx - m) / n1)^2,
\*   normalizedParabola = maxParabola > 0 ? parabola / maxParabola : 0.
BowlDepth(idx, n1, m) ==
    LET M == Max(m, n1 - m) IN
    IF M > 0 THEN [num |-> Sq(M) - Sq(idx - m), den |-> Sq(M)]
    ELSE [num |-> 1, den |-> 1]

\* Mutant of CurvePoint: the dip is taken away from the minimum,
\* (edgeInterpolation - minLow) in place of (minLow - edgeInterpolation).
CurvePointInverted(c, idx, n1, minLow, m, startLow, endLow) ==
    LET depthDen == BowlDepth(idx, n1, m).den
        depthNum == BowlDepth(idx, n1, m).num
        edgeNum  == startLow * (n1 - idx) + endLow * idx
        curvedNum == 5 * edgeNum * depthDen + 4 * (edgeNum - minLow * n1) * depthNum
    IN [time  |-> c.time,
        value |-> [num |-> 13 * curvedNum + 35 * c.low * n1 * depthDen,
                   den |-> 100 * n1 * depthDen]]

CurvePoint(c, idx, n1, minLow, m, startLow, endLow) ==
    LET depthDen == BowlDepth(idx, n1, m).den
        depthNum == BowlDepth(idx, n1, m).num
        edgeNum  == startLow * (n1 - idx) + endLow * idx
        curvedNum == 5 * edgeNum * depthDen + 4 * (minLow * n1 - edgeNum) * depthNum
    IN [time  |-> c.time,
        value |-> [num |-> 13 * curvedNum + 35 * c.low * n1 * depthDen,
                   den |-> 100 * n1 * depthDen]]

\* Mutant of CurveOf: the positions are divided by length - 1 without the
\* guard Math.max(1, ...).
CurveOfUnguarded(spanCandles) ==
    LET n1       == Len(spanCandles) - 1
        minLow   == MinLow(spanCandles)
        m        == MinLowIndex(spanCandles)
        startLow == spanCandles[1].low
        endLow   == spanCandles[Len(spanCandles)].low
    IN [i \in 1..Len(spanCandles) |->
            CurvePoint(spanCandles[i], i - 1, n1, minLow, m, startLow, endLow)]

\* spanCandles.map(...) for a non-empty span.
CurveOf(spanCandles) ==
    LET n1       == Max(1, Len(spanCandles) - 1)
        minLow   == MinLow(spanCandles)
        m        == MinLowIndex(spanCandles)
        startLow == spanCandles[1].low
        endLow   == spanCandles[Len(spanCandles)].low
    IN [i \in 1..Len(spanCandles) |->
            CurvePoint(spanCandles[i], i - 1, n1, minLow, m, startLow, endLow)]

\* The data given to patternSeries.setData: [] for an empty span.
LineData(patternMarkers, formattedPriceData) ==
    LET spanCandles == SpanCandles(patternMarkers, formattedPriceData) IN
    IF Len(spanCandles) = 0 THEN <<>> ELSE CurveOf(spanCandles)

(* ---------------------------------------------------------------------- *)
(* Series Lifecycle Manager                                                *)
(* ---------------------------------------------------------------------- *)
bowlColors == <<"#2962FF", "#FF6D00", "#00BFA5", "#D500F9", "#FFD600",
                "#00E676", "#FF1744", "#FFFFFF", "#9C27B0", "#00BCD4">>

Abs(x) == IF x < 0 THEN -x ELSE x

\* Mutant of ColorOf: Math.abs is dropped; the remainder of a negative id is
\* negative and no element of the palette.
ColorOfWithoutAbs(patternId) ==
    IF patternId < 0 THEN "undefined"
    ELSE bowlColors[(patternId % Len(bowlColors)) + 1]

\* bowlColors[Math.abs(numericPatternId) % bowlColors.length]
ColorOf(patternId) == bowlColors[(Abs(patternId) % Len(bowlColors)) + 1]

DIGITS == <<"0","1","2","3","4","5","6","7","8","9">>

RECURSIVE DigitsOf(_)
DigitsOf(n) ==
    IF n < 10 THEN <<DIGITS[n + 1]>>
    ELSE DigitsOf(n \div 10) \o <<DIGITS[(n % 10) + 1]>>

\* String(numericPatternId): the decimal digits, "-" first when negative.
String(n) == IF n < 0 THEN <<"-">> \o DigitsOf(-n) ELSE DigitsOf(n)

RECURSIVE ParseDigits(_, _)
ParseDigits(s, acc) ==
    IF s = <<>> THEN acc
    ELSE ParseDigits(Tail(s),
                     10 * acc + (CHOOSE d \in 0..9 : DIGITS[d + 1] = Head(s)))

\* Number(key) for a key written by String.
Number(key) ==
    IF Head(key) = "-" THEN -ParseDigits(Tail(key), 0) ELSE ParseDigits(key, 0)

\* The drawing surface as the effect sees it:
\*   refs       patternSeriesRefs.current, key -> index into lineSeries
\*   lineSeries the line series added to the chart, in creation order
\*   markers    the batch held by the series-markers plugin
\*   candles    the data of the candlestick series
EmptySurface ==
    [refs |-> <<>>, lineSeries |-> <<>>, markers |-> <<>>, candles |-> <<>>]

\* Mutant of ClearOldSeries: no series is cleared.
ClearOldSeriesSkipped(sf, bowlsMap) == sf

\* Step 4: series.setData([]) for every key that is not in bowls.
ClearOldSeries(sf, bowlsMap) ==
    [sf EXCEPT !.lineSeries =
        [h \in 1..Len(sf.lineSeries) |->
            IF \E key \in DOMAIN sf.refs :
                   sf.refs[key] = h /\ ~MapHas(bowlsMap, Number(key))
            THEN [sf.lineSeries[h] EXCEPT !.data = <<>>]
            ELSE sf.lineSeries[h]]]

\* Mutant of GetOrCreateSeries: a series is added whether or not the key has one.
AlwaysCreateSeries(sf, seriesKey, color) ==
    [sf EXCEPT
        !.lineSeries = Append(@, [data |-> <<>>, color |-> color]),
        !.refs = [k \in DOMAIN sf.refs \cup {seriesKey} |->
                    IF k = seriesKey THEN Len(sf.lineSeries) + 1
                    ELSE sf.refs[k]]]

\* patternSeriesRefs.current.get(seriesKey), or chart.addSeries and set.
GetOrCreateSeries(sf, seriesKey, color) ==
    IF seriesKey \in DOMAIN sf.refs THEN sf
    ELSE [sf EXCEPT
            !.lineSeries = Append(@, [data |-> <<>>, color |-> color]),
            !.refs = [k \in DOMAIN sf.refs \cup {seriesKey} |->
                        IF k = seriesKey THEN Len(sf.lineSeries) + 1
                        ELSE sf.refs[k]]]

\* Mutant of DrawBowl: the curve is added to the points the series holds.
DrawBowlAppending(sf, entry, formattedPriceData) ==
    LET patternMarkers == SortByTime(entry.markers)
        color     == ColorOf(entry.id)
        seriesKey == String(entry.id)
        sf1       == GetOrCreateSeries(sf, seriesKey, color)
        h         == sf1.refs[seriesKey]
    IN [sf1 EXCEPT !.lineSeries[h] =
            [data  |-> sf1.lineSeries[h].data
                         \o LineData(patternMarkers, formattedPriceData),
             color |-> color]]

\* Mutant of DrawBowl: on an empty span the callback returns without
\* series.setData([]).
DrawBowlKeepingOnEmptySpan(sf, entry, formattedPriceData) ==
    LET patternMarkers == SortByTime(entry.markers)
        color     == ColorOf(entry.id)
        seriesKey == String(entry.id)
        sf1       == GetOrCreateSeries(sf, seriesKey, color)
        h         == sf1.refs[seriesKey]
        lineData  == LineData(patternMarkers, formattedPriceData)
    IN [sf1 EXCEPT !.lineSeries[h] =
            [data  |-> IF lineData = <<>> THEN sf1.lineSeries[h].data ELSE lineData,
             color |-> color]]

\* The body of bowls.forEach for one entry.
DrawBowl(sf, entry, formattedPriceData) ==
    LET patternMarkers == SortByTime(entry.markers)
        color     == ColorOf(entry.id)
        seriesKey == String(entry.id)
        sf1       == GetOrCreateSeries(sf, seriesKey, color)
        h         == sf1.refs[seriesKey]
    IN [sf1 EXCEPT !.lineSeries[h] =
            [data  |-> LineData(patternMarkers, formattedPriceData),
             color |-> color]]

RECURSIVE DrawBowls(_, _, _)
DrawBowls(sf, entries, formattedPriceData) ==
    IF entries = <<>> THEN sf
    ELSE DrawBowls(DrawBowl(sf, Head(entries), formattedPriceData),
                   Tail(entries), formattedPriceData)

\* Mutant of OrDefault: a ?? b in place of a || b, the empty string is kept.
OrDefaultNullish(opt, default) ==
    IF IsSome(opt) THEN Get(opt) ELSE default

\* a || b on an optional string
OrDefault(opt, default) ==
    IF IsSome(opt) /\ Get(opt) # "" THEN Get(opt) ELSE default

\* The map step of otherMarkers.
ToSeriesMarker(marker) ==
    [time     |-> marker.time,
     position |-> OrDefault(marker.position, "belowBar"),
     color    |-> OrDefault(marker.color, "#2196F3"),
     shape    |-> OrDefault(marker.shape, "circle"),
     text     |-> ""]

\* The marker normalisation of fetchPatternScanData: position, color and
\* shape get their defaults, the other fields are passed on (?? null keeps
\* an absent field absent).
NormalizeMarker(marker) ==
    [marker EXCEPT
        !.position = Some(OrDefault(marker.position, "belowBar")),
        !.color    = Some(OrDefault(marker.color, "#2196F3")),
        !.shape    = Some(OrDefault(marker.shape, "circle"))]

NormalizeMarkers(rawMarkers) ==
    [i \in 1..Len(rawMarkers) |-> NormalizeMarker(rawMarkers[i])]

otherMarkersOf(markers, chartTitle) ==
    LET src == otherSourceMarkers(markers, chartTitle) IN
    [i \in 1..Len(src) |-> ToSeriesMarker(src[i])]

\* priceData.map(...): the candles handed to the candlestick series.
FormatPriceData(priceData) ==
    [i \in 1..Len(priceData) |->
        [time |-> priceData[i].time, open |-> priceData[i].open,
         high |-> priceData[i].high, low |-> priceData[i].low,
         close |-> priceData[i].close]]

\* The pattern instances of one run of the effect: the Map bowls after the
\* drawing loop has sorted every entry; none when priceData is empty.
BowlsOfCycle(priceData, markers, chartTitle) ==
    IF Len(priceData) > 0
    THEN SortEntries(GroupBowls(bowlMarkersOf(markers, chartTitle)))
    ELSE <<>>

\* Mutant of SetMarkers: the batch is added to the one already shown.
SetMarkersAppending(sf, batch) == [sf EXCEPT !.markers = @ \o batch]

\* seriesMarkers.setMarkers(batch)
SetMarkers(sf, batch) == [sf EXCEPT !.markers = batch]

\* Mutant of ClearAllSeries: the pattern lines keep their points.
ClearAllSeriesSkipped(sf) == sf

\* patternSeriesRefs.current.forEach((series) => series.setData([]))
ClearAllSeries(sf) ==
    [sf EXCEPT !.lineSeries =
        [h \in 1..Len(sf.lineSeries) |-> [sf.lineSeries[h] EXCEPT !.data = <<>>]]]

\* Mutant of ClearChart: the point markers are left in place.
ClearChartKeepingMarkers(sf) == ClearAllSeries([sf EXCEPT !.candles = <<>>])

\* The else branch: no priceData.
ClearChart(sf) == ClearAllSeries(SetMarkers([sf EXCEPT !.candles = <<>>], <<>>))

\* The data part of the effect (the chart and its series exist).
UpdateChartData(sf, priceData, markers, chartTitle) ==
    IF Len(priceData) > 0
    THEN LET formattedPriceData == FormatPriceData(priceData)
             bowlsMap == GroupBowls(bowlMarkersOf(markers, chartTitle))
             sf1 == [sf EXCEPT !.candles = formattedPriceData]
             sf2 == ClearOldSeries(sf1, bowlsMap)
             sf3 == DrawBowls(sf2, bowlsMap, formattedPriceData)
         IN SetMarkers(sf3, otherMarkersOf(markers, chartTitle))
    ELSE ClearChart(sf)

\* handleResize: chart.applyOptions({ width: clientWidth })
ApplyWidth(width, clientWidth) == Some(clientWidth)

\* Mutant of HandleResize: the handler also empties the point-marker batch.
HandleResizeClearingMarkers(ch, clientWidth) ==
    [width   |-> ApplyWidth(ch.width, clientWidth),
     surface |-> SetMarkers(ch.surface, <<>>)]

\* handleResize on the chart [width, surface]: only the width option is set.
HandleResize(ch, clientWidth) ==
    [ch EXCEPT !.width = ApplyWidth(ch.width, clientWidth)]

(* ---------------------------------------------------------------------- *)
(* Inputs                                                                  *)
(* ---------------------------------------------------------------------- *)
MaxMarkers == 2
MaxClassifyMarkers == 2
MaxClusterMarkers == 3

SeqsUpTo(S, n) == UNION {[1..k -> S] : k \in 0..n}

\* The lists of up to n different elements of S, in every order.
DistinctSeqsUpTo(S, n) ==
    {q \in SeqsUpTo(S, n) : \A i, j \in 1..Len(q) : i # j => q[i] # q[j]}

Marker(time, pattern_id, text, range) ==
    [time |-> time, position |-> None, color |-> None, shape |-> None,
     text |-> text, pattern_id |-> pattern_id, score |-> None,
     range_low |-> range.low, range_high |-> range.high,
     range_start_time |-> range.start, range_end_time |-> range.end,
     nrb_id |-> None, direction |-> None]

NoRange == [low |-> None, high |-> None, start |-> None, end |-> None]
FullRange == [low |-> Some(100), high |-> Some(110),
              start |-> Some(40 * DAY), end |-> Some(45 * DAY)]

BowlText == <<"B","o","w","l">>
BowlTitle == <<"X"," ","-"," ","B","o","w","l">>
NrbTitle == <<"X"," ","-"," ","N","R","B">>

Candle(day, low) ==
    [time |-> day * DAY, open |-> low + 1, high |-> low + 2, low |-> low,
     close |-> low + 1]

\* Price series of the lifecycle model: ascending, unique times.  Within 30
\* days of day 40 lie three candles of PriceA and none of PriceB; within 30
\* days of day 80 lies one candle of each.
PriceA == <<Candle(35, 5), Candle(40, 3), Candle(45, 4), Candle(105, 6)>>
PriceB == <<Candle(105, 7)>>
PriceSeries == {<<>>, PriceA, PriceB}

\* Markers of the lifecycle model: one with a pattern_id and no text (a bowl
\* marker under a bowl title only, a point marker otherwise) and two with a
\* "Bowl" text and no pattern_id, 40 days apart.  A markers prop lists each
\* of them at most once, in any order.
LifeMarkers ==
    {Marker(40 * DAY, Some(1), None, NoRange),
     Marker(40 * DAY, None, Some(BowlText), NoRange),
     Marker(80 * DAY, None, Some(BowlText), NoRange)}

LifeMarkerLists == DistinctSeqsUpTo(LifeMarkers, MaxMarkers)

LifeTitles == {BowlTitle, NrbTitle}
Widths == {800, 1200}

\* The container's clientWidth when the chart is created.
MountWidths == {800}

(* ---------------------------------------------------------------------- *)
(* SymbolSearch: the search box and its debounced search                   *)
(* ---------------------------------------------------------------------- *)
DEBOUNCE_MS == 300

\* The pending timeouts are records [handle, query, due]: the id returned
\* by setTimeout, the query its callback closes over, and the milliseconds
\* left until it is due.
\* Mutant of ClearTimeout: the timeout stays pending.
ClearTimeoutSkipped(pending, h) == pending

\* clearTimeout(handle); h is None when the run of the effect returned no
\* cleanup.
ClearTimeout(pending, h) == {t \in pending : Some(t.handle) # h}

\* setTimeout(callback, 300)
SetTimeout(pending, h, q) ==
    pending \cup {[handle |-> h, query |-> q, due |-> DEBOUNCE_MS]}

\* The state of a mounted SymbolSearch before its effects run:
\* useState(value || ""), no suggestions, not loading, closed.  clock is
\* the time since the query last changed (up to DEBOUNCE_MS); history counts
\* the timeouts set, the timeouts cleared while pending and the calls of
\* searchSymbols, and keeps the last argument of the props onChange and
\* onSelect and whether the last thing the user did to the input was a
\* selection (sinceSelect: no edit and no focus since).
UseSearchState(value) ==
    [query |-> value, suggestions |-> <<>>, loading |-> FALSE, open |-> FALSE,
     timers |-> {}, handle |-> None, calls |-> <<>>, clock |-> 0,
     history |-> [timeouts |-> 0, cleared |-> 0, called |-> 0,
                  onChange |-> None, onSelect |-> None, sinceSelect |-> FALSE]]

\* return () => clearTimeout(handle), run before the effect runs again.
EffectCleanup(s) ==
    LET left == ClearTimeout(s.timers, s.handle) IN
    [s EXCEPT !.timers = left,
              !.history.cleared = @ + Cardinality(s.timers) - Cardinality(left)]

\* The body of the debounced-search effect for the query of the render.
DebouncedSearch(s) ==
    IF s.query = <<>>
    THEN [s EXCEPT !.suggestions = <<>>, !.handle = None]
    ELSE LET h == s.history.timeouts + 1 IN
         [s EXCEPT !.loading = TRUE,
                   !.timers = SetTimeout(s.timers, h, s.query),
                   !.handle = Some(h),
                   !.history.timeouts = h]

\* setQuery(val), as handleInputChange calls it, and the render that
\* follows: the effect depends on [query], so nothing runs when val is the
\* query already.
SetQuery(s, val) ==
    IF val = s.query THEN s
    ELSE DebouncedSearch(EffectCleanup([s EXCEPT !.query = val, !.clock = 0]))

\* handleInputChange: setQuery(val); onChange(val).
handleInputChange(s, val) ==
    [SetQuery(s, val) EXCEPT !.history.onChange = Some(val),
                             !.history.sinceSelect = FALSE]

\* handleSelect: setQuery(sym); onChange(sym); onSelect(sym); setOpen(false).
handleSelect(s, item) ==
    [SetQuery(s, item.symbol) EXCEPT !.open = FALSE,
                                     !.history.onChange = Some(item.symbol),
                                     !.history.onSelect = Some(item.symbol),
                                     !.history.sinceSelect = TRUE]

\* onFocus of the input: if (suggestions.length > 0) setOpen(true).
handleFocus(s) ==
    [s EXCEPT !.open = IF Len(s.suggestions) > 0 THEN TRUE ELSE @,
              !.history.sinceSelect = FALSE]

\* The timeout's callback up to `await searchSymbols(query)`.
TimeoutCallback(s, t) ==
    [s EXCEPT !.timers = @ \ {t},
              !.calls = Append(@, t.query),
              !.history.called = @ + 1]

\* The callback of call i after the await: try and finally, or catch and
\* finally.
SearchResolved(s, i, res) ==
    [s EXCEPT !.calls = SubSeq(@, 1, i - 1) \o SubSeq(@, i + 1, Len(@)),
              !.suggestions = res, !.open = TRUE, !.loading = FALSE]

SearchRejected(s, i) ==
    [s EXCEPT !.calls = SubSeq(@, 1, i - 1) \o SubSeq(@, i + 1, Len(@)),
              !.suggestions = <<>>, !.loading = FALSE]

\* ms milliseconds pass.
Elapse(s, ms) ==
    [s EXCEPT !.timers = {[t EXCEPT !.due = Max(0, @ - ms)] : t \in s.timers},
              !.clock = IF @ + ms <= DEBOUNCE_MS THEN @ + ms ELSE DEBOUNCE_MS]

\* ---- inputs ----
MaxTimeouts == 3

Queries == {<<>>, <<"T">>, <<"T","C">>}

\* The symbols the backend knows, in the order it lists them.
SymbolList == <<[id |-> 1, symbol |-> <<"T","C">>],
                [id |-> 2, symbol |-> <<"T","I">>]>>

\* What searchSymbols(q) resolves to, response.data of GET /symbols/?q=q.
\* The service is outside the repository; it is taken to answer with the
\* symbols that contain q, the same list whenever it is asked the same q.
SearchResultOf(q) ==
    LET Matches(item) == includes(item.symbol, q) IN
    SelectSeq(SymbolList, Matches)

\* The lengths of time between two events.
Elapsed == {100, 200}

(* ---------------------------------------------------------------------- *)
(* App: the form, the fetches and the 52-week high                         *)
(* ---------------------------------------------------------------------- *)
\* The App state is the record [scrip, pattern, priceData, markers,
\* seriesName, seriesData, loading, error, isFilteredView, week52High,
\* week52HighDate, week52HighMessage, fetches]; fetches holds the running
\* calls of fetchFilteredData and fetchRaw as [fn, scrip, awaiting]: the
\* function, the scrip of the render it was called in, and the request it
\* awaits.  The parameter stays "close" and the weeks 52.
PATTERNS == {<<"N","a","r","r","o","w"," ","R","a","n","g","e"," ","B","r","e","a","k">>, <<"B","o","w","l">>}

UseAppState ==
    [scrip |-> <<>>, pattern |-> <<"N","a","r","r","o","w"," ","R","a","n","g","e"," ","B","r","e","a","k">>,
     priceData |-> <<>>, markers |-> <<>>, seriesName |-> None,
     seriesData |-> <<>>, loading |-> FALSE, error |-> None,
     isFilteredView |-> FALSE, week52High |-> None, week52HighDate |-> None,
     week52HighMessage |-> None, fetches |-> {}]

\* The chartTitle prop of TradingViewChart.
ChartTitleOf(a) ==
    IF a.scrip # <<>>
    THEN IF a.isFilteredView
         THEN a.scrip \o <<" ","-"," ">> \o a.pattern
         ELSE a.scrip \o <<" ","-"," ","1","0","Y"," ","P","r","i","c","e"," ","H","i","s","t","o","r","y">>
    ELSE <<"S","e","l","e","c","t"," ","a"," ","s","y","m","b","o","l"," ","t","o"," ","v","i","e","w"," ","c","h","a","r","t">>

\* onChange of SymbolSearch.
OnChange(a, val) ==
    IF val # a.scrip
    THEN [a EXCEPT !.scrip = val, !.week52High = None,
                   !.week52HighDate = None, !.week52HighMessage = None]
    ELSE [a EXCEPT !.scrip = val]

\* onSelect of SymbolSearch.
OnSelect(a, val) ==
    [a EXCEPT !.scrip = val, !.week52High = None, !.week52HighDate = None,
              !.week52HighMessage = None]

\* fetchFilteredData and fetchRaw up to their first await.
StartFetch(a, fn, request) ==
    IF a.scrip = <<>>
    THEN [a EXCEPT !.error = Some("Please enter a symbol.")]
    ELSE [a EXCEPT !.loading = TRUE, !.error = None,
                   !.fetches = @ \cup {[fn |-> fn, scrip |-> a.scrip,
                                        awaiting |-> request]}]

fetchFilteredData(a) == StartFetch(a, "fetchFilteredData", "fetchPatternScanData")

fetchRaw(a) == StartFetch(a, "fetchRaw", "fetchRawPriceHistory")

\* Mutant of Finally: loading is left as it is.
FinallyKeepingLoading(a, f) == [a EXCEPT !.fetches = @ \ {f}]

\* finally { setLoading(false) } and the end of the call f.
Finally(a, f) == [a EXCEPT !.loading = FALSE, !.fetches = @ \ {f}]

\* fetchFilteredData after fetchPatternScanData resolved with data, up to
\* `await fetchWeekHighForSymbol(scrip)`.
ScanResolved(a, f, data) ==
    [a EXCEPT !.priceData = data.price_data,
              !.markers = data.markers,
              !.seriesName = data.series,
              !.seriesData = data.series_data,
              !.isFilteredView = TRUE,
              !.fetches = (@ \ {f}) \cup {[f EXCEPT !.awaiting = "fetchWeek52High"]}]

\* Mutant of ScanRejected: the catch leaves the price data and the markers.
ScanRejectedKeepingData(a, f, message) ==
    Finally([a EXCEPT !.error = Some(message), !.seriesData = <<>>,
                      !.seriesName = None, !.isFilteredView = FALSE], f)

\* fetchFilteredData after fetchPatternScanData threw: catch and finally.
ScanRejected(a, f, message) ==
    Finally([a EXCEPT !.error = Some(message), !.priceData = <<>>,
                      !.markers = <<>>, !.seriesData = <<>>,
                      !.seriesName = None, !.isFilteredView = FALSE], f)

\* fetchRaw after fetchRawPriceHistory resolved with data, up to
\* `await fetchWeekHighForSymbol(scrip)`.
RawResolved(a, f, data) ==
    [a EXCEPT !.priceData = data.price_data, !.markers = <<>>,
              !.seriesData = <<>>, !.seriesName = None,
              !.isFilteredView = FALSE,
              !.fetches = (@ \ {f}) \cup {[f EXCEPT !.awaiting = "fetchWeek52High"]}]

\* fetchRaw after fetchRawPriceHistory threw: catch and finally.
RawRejected(a, f, message) ==
    Finally([a EXCEPT !.error = Some(message), !.priceData = <<>>,
                      !.markers = <<>>, !.seriesData = <<>>], f)

\* fetchWeekHighForSymbol after fetchWeek52High resolved with data, and the
\* finally of the call that awaited it.
WeekHighResolved(a, f, data) ==
    Finally([a EXCEPT !.week52High = data.week52_high,
                      !.week52HighDate = data.cutoff_date,
                      !.week52HighMessage =
                          IF IsSome(data.message) THEN data.message
                          ELSE IF data.week52_high = None
                               THEN Some("No price data found for the past 52 weeks.")
                               ELSE None], f)

\* fetchWeekHighForSymbol after fetchWeek52High threw, and the finally of
\* the call that awaited it.
WeekHighRejected(a, f) ==
    Finally([a EXCEPT !.week52High = None, !.week52HighDate = None,
                      !.week52HighMessage = None], f)

\* ---- inputs ----
Scrips == {<<>>, <<"T","C">>, <<"I","T">>}

\* The 52-week high the backend holds for a symbol.
Week52HighOf(symbol) == IF symbol = <<"T","C">> THEN 3500 ELSE 1500

\* What fetchWeek52High(symbol) may resolve to.
WeekHighResponses(symbol) ==
    {[week52_high |-> Some(Week52HighOf(symbol)), cutoff_date |-> Some("2025-11-01"),
      message |-> None],
     [week52_high |-> None, cutoff_date |-> None, message |-> None]}

\* What fetchPatternScanData may resolve to: the normalized response.
ScanResponses ==
    {[price_data |-> price, markers |-> NormalizeMarkers(markers),
      series |-> None, series_data |-> <<>>] :
        price \in {<<>>, PriceA},
        markers \in {<<>>,
                     <<Marker(40 * DAY, None, Some(BowlText), NoRange)>>,
                     <<Marker(40 * DAY, Some(1), None, NoRange),
                       Marker(80 * DAY, None, Some(BowlText), NoRange)>>}}

\* What fetchRawPriceHistory may resolve to.
RawResponses == {[price_data |-> price] : price \in {<<>>, PriceA, PriceB}}

\* The messages of the errors the two requests throw.
ScanErrors == {"An unknown API error occurred",
               "Network or other error during API call"}

RawErrors == {"Network or other error during raw history API call"}

(* ---------------------------------------------------------------------- *)
(* State                                                                   *)
(* ---------------------------------------------------------------------- *)
VARIABLES
    chartCreated,       \* chartRef.current is set
    chartWidth,         \* the width option of the chart
    candlestickData,    \* data of candlestickSeriesRef.current
    patternSeriesRefs,  \* patternSeriesRefs.current: key -> line series
    lineSeries,         \* the line series of the chart: [data, color]
    seriesMarkers,      \* the batch of seriesMarkersRef.current
    priceData,          \* the priceData prop of the last run of the effect
    markersProp,        \* the markers prop of the last run
    chartTitleProp,     \* the chartTitle prop of the last run
    bowls,              \* the pattern instances of the last run
    lastCycle,          \* what the last run did to the series (history)
    freshOverlay,       \* the overlay the last run draws on an empty chart
    inMarkers, inTitle, stage,            \* pure-function specifications
    inPriceData,
    outBowlMarkers, outOtherMarkers, outBowls, outLineData,
    query, suggestions, searchLoading, open,   \* state of SymbolSearch
    timers,             \* the pending timeouts
    handle,             \* the handle the effect's cleanup will clear
    searchCalls,        \* the queries of the running searchSymbols calls
    searchClock,        \* time since the query last changed
    searchHistory,      \* timeouts set and cleared, calls made
    scrip, pattern,     \* state of App
    appPriceData,       \* priceData of App
    appMarkers,         \* markers of App
    seriesName, seriesData, loading, error, isFilteredView,
    week52High, week52HighDate, week52HighMessage,
    fetches             \* the running fetchFilteredData / fetchRaw calls

lifeVars == <<chartCreated, chartWidth, candlestickData, patternSeriesRefs,
              lineSeries, seriesMarkers, priceData, markersProp, chartTitleProp,
              bowls, lastCycle, freshOverlay>>
pureVars == <<inMarkers, inTitle, stage, inPriceData, outBowlMarkers,
              outOtherMarkers, outBowls, outLineData>>
searchVars == <<query, suggestions, searchLoading, open, timers, handle,
                searchCalls, searchClock, searchHistory>>
appVars == <<scrip, pattern, appPriceData, appMarkers, seriesName, seriesData,
             loading, error, isFilteredView, week52High, week52HighDate,
             week52HighMessage, fetches>>
uiVars == <<searchVars, appVars>>
vars == <<lifeVars, pureVars, uiVars>>

SearchState ==
    [query |-> query, suggestions |-> suggestions, loading |-> searchLoading,
     open |-> open, timers |-> timers, handle |-> handle, calls |-> searchCalls,
     clock |-> searchClock, history |-> searchHistory]

SearchIs(s) ==
    /\ query = s.query
    /\ suggestions = s.suggestions
    /\ searchLoading = s.loading
    /\ open = s.open
    /\ timers = s.timers
    /\ handle = s.handle
    /\ searchCalls = s.calls
    /\ searchClock = s.clock
    /\ searchHistory = s.history

SearchBecomes(s) ==
    /\ query' = s.query
    /\ suggestions' = s.suggestions
    /\ searchLoading' = s.loading
    /\ open' = s.open
    /\ timers' = s.timers
    /\ handle' = s.handle
    /\ searchCalls' = s.calls
    /\ searchClock' = s.clock
    /\ searchHistory' = s.history

AppState ==
    [scrip |-> scrip, pattern |-> pattern, priceData |-> appPriceData,
     markers |-> appMarkers, seriesName |-> seriesName,
     seriesData |-> seriesData, loading |-> loading, error |-> error,
     isFilteredView |-> isFilteredView, week52High |-> week52High,
     week52HighDate |-> week52HighDate,
     week52HighMessage |-> week52HighMessage, fetches |-> fetches]

AppBecomes(a) ==
    /\ scrip' = a.scrip
    /\ pattern' = a.pattern
    /\ appPriceData' = a.priceData
    /\ appMarkers' = a.markers
    /\ seriesName' = a.seriesName
    /\ seriesData' = a.seriesData
    /\ loading' = a.loading
    /\ error' = a.error
    /\ isFilteredView' = a.isFilteredView
    /\ week52High' = a.week52High
    /\ week52HighDate' = a.week52HighDate
    /\ week52HighMessage' = a.week52HighMessage
    /\ fetches' = a.fetches

\* App as it is mounted: the initial values of its useState calls.
AppIdle ==
    /\ scrip = UseAppState.scrip
    /\ pattern = UseAppState.pattern
    /\ appPriceData = UseAppState.priceData
    /\ appMarkers = UseAppState.markers
    /\ seriesName = UseAppState.seriesName
    /\ seriesData = UseAppState.seriesData
    /\ loading = UseAppState.loading
    /\ error = UseAppState.error
    /\ isFilteredView = UseAppState.isFilteredView
    /\ week52High = UseAppState.week52High
    /\ week52HighDate = UseAppState.week52HighDate
    /\ week52HighMessage = UseAppState.week52HighMessage
    /\ fetches = UseAppState.fetches

\* SymbolSearch and App as they are mounted, with an empty symbol.
UiIdle == SearchIs(UseSearchState(<<>>)) /\ AppIdle

Surface ==
    [refs |-> patternSeriesRefs, lineSeries |-> lineSeries,
     markers |-> seriesMarkers, candles |-> candlestickData]

\* The chart: its width option and its drawing surface.
Chart == [width |-> chartWidth, surface |-> Surface]

\* What is drawn over the candles: the series with points, by key, and the
\* point-marker batch.
Overlay(sf) ==
    [curves |-> {[key |-> k, data |-> sf.lineSeries[sf.refs[k]].data,
                  color |-> sf.lineSeries[sf.refs[k]].color] :
                    k \in {x \in DOMAIN sf.refs :
                             sf.lineSeries[sf.refs[x]].data # <<>>}},
     batch |-> sf.markers]

NoCycle ==
    [cleared |-> FALSE, reused |-> FALSE, revived |-> FALSE, emptied |-> FALSE,
     created |-> 0, candidates |-> FALSE, repeated |-> FALSE]

\* History of one run: whether the series of a key that is no instance of
\* the run lost its points, whether the series of a key was used again
\* (revived: after being empty; emptied: and lost its points), the number
\* of series added, and whether the markers held a bowl candidate; repeated: the run had the props of the
\* run before it.
CycleHistory(old, new, newBowls, markers, chartTitle, repeated) ==
    LET keys == {String(newBowls[i].id) : i \in 1..Len(newBowls)} IN
    [cleared |-> \E k \in DOMAIN old.refs :
                    /\ k \notin keys
                    /\ old.lineSeries[old.refs[k]].data # <<>>
                    /\ new.lineSeries[new.refs[k]].data = <<>>,
     reused  |-> \E k \in DOMAIN old.refs :
                    /\ k \in keys
                    /\ old.lineSeries[old.refs[k]].data # <<>>
                    /\ new.lineSeries[new.refs[k]].data # <<>>,
     revived |-> \E k \in DOMAIN old.refs :
                    /\ k \in keys
                    /\ old.lineSeries[old.refs[k]].data = <<>>
                    /\ new.lineSeries[new.refs[k]].data # <<>>,
     emptied |-> \E k \in DOMAIN old.refs :
                    /\ k \in keys
                    /\ old.lineSeries[old.refs[k]].data # <<>>
                    /\ new.lineSeries[new.refs[k]].data = <<>>,
     created |-> Len(new.lineSeries) - Len(old.lineSeries),
     candidates |-> Len(bowlMarkersOf(markers, chartTitle)) > 0,
     repeated |-> repeated]

PureIdle ==
    /\ inMarkers = <<>>
    /\ inTitle = <<>>
    /\ stage = "idle"
    /\ inPriceData = <<>>
    /\ outBowlMarkers = <<>>
    /\ outOtherMarkers = <<>>
    /\ outBowls = <<>>
    /\ outLineData = <<>>

LifeInit ==
    /\ chartCreated = FALSE
    /\ chartWidth = None
    /\ candlestickData = <<>>
    /\ patternSeriesRefs = <<>>
    /\ lineSeries = <<>>
    /\ seriesMarkers = <<>>
    /\ priceData = <<>>
    /\ markersProp = <<>>
    /\ chartTitleProp = <<>>
    /\ bowls = <<>>
    /\ lastCycle = NoCycle
    /\ freshOverlay = Overlay(EmptySurface)

Init == LifeInit /\ PureIdle /\ UiIdle

\* One run of the effect for the props (price, markers, chartTitle); the
\* first run creates the chart at the container's width.
RunEffect(price, markers, chartTitle) ==
      \E new \in {UpdateChartData(Surface, price, markers, chartTitle)},
         newBowls \in {BowlsOfCycle(price, markers, chartTitle)} :
           /\ chartCreated' = TRUE
           /\ chartWidth' \in IF chartCreated THEN {chartWidth}
                              ELSE {Some(clientWidth) : clientWidth \in MountWidths}
           /\ candlestickData' = new.candles
           /\ patternSeriesRefs' = new.refs
           /\ lineSeries' = new.lineSeries
           /\ seriesMarkers' = new.markers
           /\ priceData' = price
           /\ markersProp' = markers
           /\ chartTitleProp' = chartTitle
           /\ bowls' = newBowls
           /\ lastCycle' =
                CycleHistory(Surface, new, newBowls, markers, chartTitle,
                             /\ chartCreated
                             /\ price = priceData
                             /\ markers = markersProp
                             /\ chartTitle = chartTitleProp)
           /\ freshOverlay' =
                Overlay(UpdateChartData(EmptySurface, price, markers, chartTitle))

\* The chart alone: the effect runs for any props.
Recompute ==
    /\ \E price \in PriceSeries, markers \in LifeMarkerLists,
          chartTitle \in LifeTitles : RunEffect(price, markers, chartTitle)
    /\ UNCHANGED <<pureVars, uiVars>>

\* The window's resize event, once the effect has registered handleResize.
Resize ==
    /\ chartCreated
    /\ \E clientWidth \in Widths :
          \E ch \in {HandleResize(Chart, clientWidth)} :
              /\ chartWidth' = ch.width
              /\ candlestickData' = ch.surface.candles
              /\ patternSeriesRefs' = ch.surface.refs
              /\ lineSeries' = ch.surface.lineSeries
              /\ seriesMarkers' = ch.surface.markers
    /\ UNCHANGED <<chartCreated, priceData, markersProp, chartTitleProp, bowls,
                   lastCycle, freshOverlay>>
    /\ UNCHANGED <<pureVars, uiVars>>

Next == Recompute \/ Resize

Spec == Init /\ [][Next]_vars

(* ---------------------------------------------------------------------- *)
(* The classifier on its own: Init draws a marker list and a title, and    *)
(* Classify applies the two filters of the effect.                         *)
(* ---------------------------------------------------------------------- *)
ClassTexts == {None, Some(BowlText), Some(<<"b","O","W","L"," ","#","1">>),
               Some(<<"B","o","w">>)}

ClassMarkers ==
    {Marker(40 * DAY, pid, text, range) :
        pid \in {None, Some(5)}, text \in ClassTexts,
        range \in {NoRange, FullRange}}

ClassTitles == {BowlTitle, NrbTitle, <<"B","O","W","L","S">>}

InitClassifier ==
    /\ LifeInit
    /\ UiIdle
    /\ inMarkers \in SeqsUpTo(ClassMarkers, MaxClassifyMarkers)
    /\ inTitle \in ClassTitles
    /\ stage = "input"
    /\ inPriceData = <<>>
    /\ outBowlMarkers = <<>>
    /\ outOtherMarkers = <<>>
    /\ outBowls = <<>>
    /\ outLineData = <<>>

Classify ==
    /\ stage = "input"
    /\ stage' = "classified"
    /\ outBowlMarkers' = bowlMarkersOf(inMarkers, inTitle)
    /\ outOtherMarkers' = otherSourceMarkers(inMarkers, inTitle)
    /\ UNCHANGED <<inMarkers, inTitle, inPriceData, outBowls, outLineData>>
    /\ UNCHANGED <<lifeVars, uiVars>>

NextClassifier == Classify

SpecClassifier == InitClassifier /\ [][NextClassifier]_vars

(* ---------------------------------------------------------------------- *)
(* The clusterer on its own: Init draws a list of bowl markers (each has   *)
(* a "Bowl" text), and Cluster groups them as the effect does.             *)
(* ---------------------------------------------------------------------- *)
ClusterTimes == {0, 1 * DAY, 30 * DAY, 60 * DAY, 61 * DAY, 90 * DAY + 1}

ClusterIds == {None, Some(5), Some(7), Some(-1)}

ClusterMarkers ==
    {Marker(t, pid, Some(BowlText), NoRange) : t \in ClusterTimes, pid \in ClusterIds}

InitClusterer ==
    /\ LifeInit
    /\ UiIdle
    /\ inMarkers \in SeqsUpTo(ClusterMarkers, MaxClusterMarkers)
    /\ inTitle = NrbTitle
    /\ stage = "input"
    /\ inPriceData = <<>>
    /\ outBowlMarkers = <<>>
    /\ outOtherMarkers = <<>>
    /\ outBowls = <<>>
    /\ outLineData = <<>>

Cluster ==
    /\ stage = "input"
    /\ stage' = "clustered"
    /\ outBowlMarkers' = bowlMarkersOf(inMarkers, inTitle)
    /\ outOtherMarkers' = otherSourceMarkers(inMarkers, inTitle)
    /\ outBowls' = SortEntries(GroupBowls(bowlMarkersOf(inMarkers, inTitle)))
    /\ UNCHANGED <<inMarkers, inTitle, inPriceData, outLineData>>
    /\ UNCHANGED <<lifeVars, uiVars>>

NextClusterer == Cluster

SpecClusterer == InitClusterer /\ [][NextClusterer]_vars

(* ---------------------------------------------------------------------- *)
(* The curve synthesizer on its own: Init draws the members of one pattern *)
(* instance and a candle series (times ascending and unique, as the        *)
(* candlestick series requires), and Synthesize computes the instance's    *)
(* lineData as the drawing loop does.                                      *)
(* ---------------------------------------------------------------------- *)
MaxCurveCandles == 3

CandleAt(time, low) ==
    [time |-> time, open |-> low + 1, high |-> low + 2, low |-> low,
     close |-> low + 1]

\* Candle times around the windows [10d, 70d], [10d, 80d] and [20d, 80d] of
\* the instances below: on, just outside and well inside their ends.
CurveCandleTimes ==
    {10 * DAY - 1, 10 * DAY, 20 * DAY, 45 * DAY, 70 * DAY + 1, 80 * DAY,
     80 * DAY + 1}

CurveLows == {1, 2, 3}

CurveCandles == {CandleAt(t, low) : t \in CurveCandleTimes, low \in CurveLows}

CurvePriceSeries ==
    {q \in SeqsUpTo(CurveCandles, MaxCurveCandles) :
        \A i \in 1..(Len(q) - 1) : q[i].time < q[i + 1].time}

CurveMarkers ==
    {Marker(40 * DAY, None, Some(BowlText), NoRange),
     Marker(50 * DAY, None, Some(BowlText), NoRange)}

CurveInstances ==
    DistinctSeqsUpTo(CurveMarkers, Cardinality(CurveMarkers)) \ {<<>>}

InitCurve ==
    /\ LifeInit
    /\ UiIdle
    /\ inMarkers \in CurveInstances
    /\ inTitle = NrbTitle
    /\ inPriceData \in CurvePriceSeries
    /\ stage = "input"
    /\ outBowlMarkers = <<>>
    /\ outOtherMarkers = <<>>
    /\ outBowls = <<>>
    /\ outLineData = <<>>

Synthesize ==
    /\ stage = "input"
    /\ stage' = "synthesized"
    /\ outLineData' = LineData(SortByTime(inMarkers), FormatPriceData(inPriceData))
    /\ UNCHANGED <<inMarkers, inTitle, inPriceData, outBowlMarkers,
                   outOtherMarkers, outBowls>>
    /\ UNCHANGED <<lifeVars, uiVars>>

NextCurve == Synthesize

SpecCurve == InitCurve /\ [][NextCurve]_vars

(* ---------------------------------------------------------------------- *)
(* The first run of the effect on its own: Init draws a marker list with   *)
(* range fields, directions and rendering hints and a title, and Render    *)
(* runs the effect on the new chart with the price series PriceA.  The     *)
(* markers reach the chart as received or through the normalisation of     *)
(* fetchPatternScanData.                                                   *)
(* ---------------------------------------------------------------------- *)
MaxRenderMarkers == 2

WithHints(m, color, shape, direction, nrb_id) ==
    [m EXCEPT !.color = color, !.shape = shape, !.direction = direction,
              !.nrb_id = nrb_id]

\* Every marker has a time of its own.
RenderMarkers ==
    {Marker(36 * DAY, None, None, FullRange),
     WithHints(Marker(37 * DAY, None, None, FullRange), None, None, None, Some(7)),
     Marker(38 * DAY, None, Some(BowlText), FullRange),
     WithHints(Marker(40 * DAY, None, None, NoRange),
               Some("#FF0000"), Some("square"), Some("Bullish Break"), None),
     WithHints(Marker(41 * DAY, None, None, NoRange),
               None, None, Some("Bullish Break"), None),
     WithHints(Marker(42 * DAY, None, None, NoRange),
               None, None, Some("Bearish Break"), None),
     WithHints(Marker(43 * DAY, None, None, NoRange),
               Some("#00FF00"), Some("arrowUp"), Some("Inside"), None),
     Marker(44 * DAY, None, None, NoRange),
     [Marker(46 * DAY, None, None, NoRange) EXCEPT
         !.position = Some("aboveBar"), !.color = Some("")]}

RenderTitles == {BowlTitle, NrbTitle}

InitRender ==
    /\ LifeInit
    /\ UiIdle
    /\ inMarkers \in SeqsUpTo(RenderMarkers, MaxRenderMarkers)
    /\ inTitle \in RenderTitles
    /\ inPriceData = PriceA
    /\ stage = "input"
    /\ outBowlMarkers = <<>>
    /\ outOtherMarkers = <<>>
    /\ outBowls = <<>>
    /\ outLineData = <<>>

Render ==
    /\ stage = "input"
    /\ stage' = "rendered"
    /\ \E markers \in {inMarkers, NormalizeMarkers(inMarkers)} :
       \E new \in {UpdateChartData(Surface, inPriceData, markers, inTitle)},
          newBowls \in {BowlsOfCycle(inPriceData, markers, inTitle)} :
            /\ chartCreated' = TRUE
            /\ chartWidth' \in {Some(clientWidth) : clientWidth \in MountWidths}
            /\ candlestickData' = new.candles
            /\ patternSeriesRefs' = new.refs
            /\ lineSeries' = new.lineSeries
            /\ seriesMarkers' = new.markers
            /\ priceData' = inPriceData
            /\ markersProp' = markers
            /\ chartTitleProp' = inTitle
            /\ bowls' = newBowls
            /\ lastCycle' =
                 CycleHistory(Surface, new, newBowls, markers, inTitle, FALSE)
            /\ freshOverlay' = Overlay(new)
    /\ UNCHANGED <<inMarkers, inTitle, inPriceData, outBowlMarkers,
                   outOtherMarkers, outBowls, outLineData>>
    /\ UNCHANGED uiVars

NextRender == Render

SpecRender == InitRender /\ [][NextRender]_vars

(* ---------------------------------------------------------------------- *)
(* SymbolSearch on its own: edits, selections, time, the timeout and the   *)
(* answers to searchSymbols.                                               *)
(* ---------------------------------------------------------------------- *)
InitSearch ==
    /\ LifeInit
    /\ PureIdle
    /\ AppIdle
    /\ \E value \in Queries : SearchIs(DebouncedSearch(UseSearchState(value)))

\* The user edits the text of the input: handleInputChange.
InputChange ==
    /\ \E val \in Queries \ {query} :
          /\ val = <<>> \/ searchHistory.timeouts < MaxTimeouts
          /\ SearchBecomes(handleInputChange(SearchState, val))
    /\ UNCHANGED <<lifeVars, pureVars, appVars>>

\* The user clicks a suggestion of the open dropdown.
Select ==
    /\ open
    /\ \E i \in 1..Len(suggestions) :
          /\ suggestions[i].symbol = query \/ searchHistory.timeouts < MaxTimeouts
          /\ SearchBecomes(handleSelect(SearchState, suggestions[i]))
    /\ UNCHANGED <<lifeVars, pureVars, appVars>>

\* The user focuses the input.
Focus ==
    /\ SearchBecomes(handleFocus(SearchState))
    /\ UNCHANGED <<lifeVars, pureVars, appVars>>

\* handleClickOutside for a mousedown outside the container.
ClickOutside ==
    /\ SearchBecomes([SearchState EXCEPT !.open = FALSE])
    /\ UNCHANGED <<lifeVars, pureVars, appVars>>

TimePasses ==
    /\ searchClock < DEBOUNCE_MS \/ \E t \in timers : t.due > 0
    /\ \E ms \in Elapsed : SearchBecomes(Elapse(SearchState, ms))
    /\ UNCHANGED <<lifeVars, pureVars, appVars>>

\* A timeout that is due runs its callback, which calls searchSymbols.
TimeoutFires ==
    /\ \E t \in timers :
          /\ t.due = 0
          /\ SearchBecomes(TimeoutCallback(SearchState, t))
    /\ UNCHANGED <<lifeVars, pureVars, appVars>>

SearchResolves ==
    /\ \E i \in 1..Len(searchCalls) :
          SearchBecomes(SearchResolved(SearchState, i,
                                       SearchResultOf(searchCalls[i])))
    /\ UNCHANGED <<lifeVars, pureVars, appVars>>

SearchRejects ==
    /\ \E i \in 1..Len(searchCalls) :
          SearchBecomes(SearchRejected(SearchState, i))
    /\ UNCHANGED <<lifeVars, pureVars, appVars>>

NextSearch ==
    \/ InputChange
    \/ Select
    \/ Focus
    \/ ClickOutside
    \/ TimePasses
    \/ TimeoutFires
    \/ SearchResolves
    \/ SearchRejects

SpecSearch == InitSearch /\ [][NextSearch]_vars

(* ---------------------------------------------------------------------- *)
(* App with its chart: every event handler and every settled request is    *)
(* one step, which ends with the render it causes and, when priceData,     *)
(* markers or chartTitle changed, with the run of the chart's effect.      *)
(* ---------------------------------------------------------------------- *)
\* The state a and the render of it; setProps: the handler called
\* setPriceData or setMarkers, which give the chart new arrays.
Rerender(a, setProps) ==
    /\ AppBecomes(a)
    /\ IF setProps \/ ChartTitleOf(a) # chartTitleProp
       THEN RunEffect(a.priceData, a.markers, ChartTitleOf(a))
       ELSE UNCHANGED lifeVars
    /\ UNCHANGED <<pureVars, searchVars>>

\* The first render: the chart is created and its effect runs.
Mount ==
    /\ ~chartCreated
    /\ Rerender(AppState, TRUE)

\* The user edits the symbol: handleInputChange calls onChange(val).
EditSymbol ==
    /\ chartCreated
    /\ \E val \in Scrips \ {scrip} : Rerender(OnChange(AppState, val), FALSE)

\* The user clicks a suggestion: handleSelect calls onChange(sym) and
\* onSelect(sym).
SelectSymbol ==
    /\ chartCreated
    /\ \E sym \in Scrips \ {<<>>} :
          Rerender(OnSelect(OnChange(AppState, sym), sym), FALSE)

SetPattern ==
    /\ chartCreated
    /\ \E p \in PATTERNS \ {pattern} :
          Rerender([AppState EXCEPT !.pattern = p], FALSE)

\* handleSubmit; the submit button is disabled while loading.
Submit ==
    /\ chartCreated
    /\ ~loading
    /\ Rerender(fetchFilteredData(AppState), FALSE)

\* onClick of the raw-history button, disabled while loading.
ClickRaw ==
    /\ chartCreated
    /\ ~loading
    /\ Rerender(fetchRaw(AppState), FALSE)

ScanResolves ==
    \E f \in fetches, data \in ScanResponses :
        /\ f.awaiting = "fetchPatternScanData"
        /\ Rerender(ScanResolved(AppState, f, data), TRUE)

ScanRejects ==
    \E f \in fetches, message \in ScanErrors :
        /\ f.awaiting = "fetchPatternScanData"
        /\ Rerender(ScanRejected(AppState, f, message), TRUE)

RawResolves ==
    \E f \in fetches, data \in RawResponses :
        /\ f.awaiting = "fetchRawPriceHistory"
        /\ Rerender(RawResolved(AppState, f, data), TRUE)

RawRejects ==
    \E f \in fetches, message \in RawErrors :
        /\ f.awaiting = "fetchRawPriceHistory"
        /\ Rerender(RawRejected(AppState, f, message), TRUE)

WeekHighResolves ==
    \E f \in fetches :
        /\ f.awaiting = "fetchWeek52High"
        /\ \E data \in WeekHighResponses(f.scrip) :
              Rerender(WeekHighResolved(AppState, f, data), FALSE)

WeekHighRejects ==
    \E f \in fetches :
        /\ f.awaiting = "fetchWeek52High"
        /\ Rerender(WeekHighRejected(AppState, f), FALSE)

NextApp ==
    \/ Mount
    \/ EditSymbol
    \/ SelectSymbol
    \/ SetPattern
    \/ Submit
    \/ ClickRaw
    \/ ScanResolves
    \/ ScanRejects
    \/ RawResolves
    \/ RawRejects
    \/ WeekHighResolves
    \/ WeekHighRejects

\* App starts as Init has it: mounted, the chart not yet created.
SpecApp == Init /\ [][NextApp]_vars

(* ---------------------------------------------------------------------- *)
(* Properties                                                              *)
(* ---------------------------------------------------------------------- *)
Range(seq) == {seq[i] : i \in 1..Len(seq)}

Count(seq, v) == Cardinality({i \in 1..Len(seq) : seq[i] = v})

\* The keys of the pattern instances of the last run.
CurrentKeys == {String(bowls[i].id) : i \in 1..Len(bowls)}

DataOf(key) == lineSeries[patternSeriesRefs[key]].data

\* C1: stale-key cleanup.  From one run with a non-empty price series to the
\* next, a key that has a series before the step and is no pattern instance
\* of the new run has a series with no points after the step.
C1_StaleKeyCleanup ==
    [][(priceData # <<>> /\ priceData' # <<>>) =>
        \A k \in DOMAIN patternSeriesRefs :
            (\A i \in 1..Len(bowls') : String(bowls'[i].id) # k) =>
                /\ k \in DOMAIN patternSeriesRefs'
                /\ lineSeries'[patternSeriesRefs'[k]].data = <<>>]_vars

\* A run with a non-empty price series has emptied a series that held points
\* and whose key is no instance of the run.
C1_Witness ==
    /\ priceData # <<>>
    /\ lastCycle.cleared
    /\ \E k \in DOMAIN patternSeriesRefs : k \notin CurrentKeys /\ DataOf(k) = <<>>

\* C2: after every run the mapping holds one series for each pattern
\* instance of the run, different instances have different series, and every
\* series whose key is no instance of the run has no points.
C2_MappingInvariant ==
    chartCreated =>
        /\ \A k \in CurrentKeys :
              /\ k \in DOMAIN patternSeriesRefs
              /\ patternSeriesRefs[k] \in 1..Len(lineSeries)
        /\ \A i, j \in 1..Len(bowls) :
              i # j => patternSeriesRefs[String(bowls[i].id)]
                         # patternSeriesRefs[String(bowls[j].id)]
        /\ \A k \in DOMAIN patternSeriesRefs :
              k \notin CurrentKeys => DataOf(k) = <<>>

\* Two instances are drawn while the mapping also holds the series of a key
\* of an earlier run.
C2_Witness ==
    /\ chartCreated
    /\ Len(bowls) >= 2
    /\ \E k \in CurrentKeys : DataOf(k) # <<>>
    /\ \E k \in DOMAIN patternSeriesRefs : k \notin CurrentKeys

\* C3: handle reuse.  A key keeps the series it has; a step adds exactly one
\* series per key that is new to the mapping, so the chart never holds two
\* series for one key; and the series of every instance of the run holds the
\* curve of that instance for the run's price series, in the instance's color.
C3_HandleReuse ==
    [][/\ \A k \in DOMAIN patternSeriesRefs :
            /\ k \in DOMAIN patternSeriesRefs'
            /\ patternSeriesRefs'[k] = patternSeriesRefs[k]
       /\ Len(lineSeries') - Len(lineSeries)
            = Cardinality(DOMAIN patternSeriesRefs' \ DOMAIN patternSeriesRefs)
       /\ Len(lineSeries') = Cardinality(DOMAIN patternSeriesRefs')
       /\ \A i \in 1..Len(bowls') :
            LET k == String(bowls'[i].id) IN
            /\ k \in DOMAIN patternSeriesRefs'
            /\ lineSeries'[patternSeriesRefs'[k]].data
                 = LineData(bowls'[i].markers, FormatPriceData(priceData'))
            /\ lineSeries'[patternSeriesRefs'[k]].color
                 = bowlColors[(Abs(bowls'[i].id) % 10) + 1]]_vars

\* The last run drew on a series that an earlier run had created and a run in
\* between had emptied, and added no series.
C3_Witness ==
    /\ lastCycle.revived
    /\ lastCycle.reused
    /\ lastCycle.created = 0

\* C4: history independence.  After any sequence of runs, the series that
\* hold points (by key, with data and color) and the point-marker batch are
\* those the last run alone draws on a chart with an empty mapping.
C4_HistoryIndependence == Overlay(Surface) = freshOverlay

\* The last run emptied the curve of an earlier run and drew a curve and
\* point markers of its own.
C4_Witness ==
    /\ lastCycle.cleared
    /\ freshOverlay.curves # {}
    /\ freshOverlay.batch # <<>>

\* C5: after a run with an empty price series every line series has no
\* points, the point-marker batch and the candles are empty, and the run
\* added no series.
C5_EmptyPriceSeries ==
    (chartCreated /\ priceData = <<>>) =>
        /\ \A h \in 1..Len(lineSeries) : lineSeries[h].data = <<>>
        /\ seriesMarkers = <<>>
        /\ candlestickData = <<>>
        /\ lastCycle.created = 0
        /\ bowls = <<>>

\* A run with an empty price series and a bowl candidate among its markers
\* emptied curves drawn by an earlier run.
C5_Witness ==
    /\ chartCreated
    /\ priceData = <<>>
    /\ lastCycle.candidates
    /\ lastCycle.cleared
    /\ Len(lineSeries) >= 2

\* C6: classification is a partition.  Every marker of the list is in the
\* bowl markers or in the other markers and never in both, as often as it is
\* in the list, and neither part holds anything else.
C6_ClassificationPartition ==
    stage = "classified" =>
        /\ \A v \in Range(inMarkers) :
              /\ Count(inMarkers, v) = Count(outBowlMarkers, v) + Count(outOtherMarkers, v)
              /\ Count(outBowlMarkers, v) = 0 \/ Count(outOtherMarkers, v) = 0
        /\ Range(outBowlMarkers) \cup Range(outOtherMarkers) \subseteq Range(inMarkers)
        /\ Len(outBowlMarkers) + Len(outOtherMarkers) = Len(inMarkers)

HasRangeFields(m) ==
    /\ IsSome(m.range_low) /\ IsSome(m.range_high)
    /\ IsSome(m.range_start_time) /\ IsSome(m.range_end_time)

\* Both parts are non-empty and a marker with all four range fields is among
\* the other markers.
C6_Witness ==
    /\ stage = "classified"
    /\ outBowlMarkers # <<>>
    /\ \E m \in Range(outOtherMarkers) : HasRangeFields(m) /\ IsSome(m.pattern_id)

\* s contains the four letters b, o, w, l in a row, each in either case.
ContainsBowl(s) ==
    \E i \in 1..(Len(s) - 3) :
        /\ s[i] \in {"b", "B"}
        /\ s[i + 1] \in {"o", "O"}
        /\ s[i + 2] \in {"w", "W"}
        /\ s[i + 3] \in {"l", "L"}

IsBowlCandidate(m, title) ==
    \/ ContainsBowl(title) /\ IsSome(m.pattern_id)
    \/ IsSome(m.text) /\ ContainsBowl(Get(m.text))

\* C7: a marker is among the bowl markers exactly if the title contains
\* "bowl" in any case and the marker has a pattern_id, or its text contains
\* "bowl" in any case; such a marker is never among the other markers, also
\* when all four range fields are set.
C7_BowlCandidateRule ==
    stage = "classified" =>
        \A m \in Range(inMarkers) :
            /\ (m \in Range(outBowlMarkers)) <=> IsBowlCandidate(m, inTitle)
            /\ IsBowlCandidate(m, inTitle) => m \notin Range(outOtherMarkers)

\* Under a title without "bowl", a marker with a mixed-case bowl text and all
\* four range fields is a bowl marker, and a marker with a pattern_id and no
\* bowl text is not.
C7_Witness ==
    /\ stage = "classified"
    /\ ~ContainsBowl(inTitle)
    /\ \E m \in Range(outBowlMarkers) :
          HasRangeFields(m) /\ Get(m.text) # toUpperCase(Get(m.text))
    /\ \E m \in Range(outOtherMarkers) : IsSome(m.pattern_id)

\* ---- clustering ----
Last(seq) == seq[Len(seq)]

Ascending(ms) == \A j \in 1..(Len(ms) - 1) : ms[j].time <= ms[j + 1].time

RECURSIVE Members(_)
Members(map) ==
    IF map = <<>> THEN <<>> ELSE Head(map).markers \o Members(Tail(map))

CandidateIds ==
    {Get(m.pattern_id) : m \in {x \in Range(outBowlMarkers) : IsSome(x.pattern_id)}}

AllLackId == \A m \in Range(outBowlMarkers) : ~IsSome(m.pattern_id)

AllShareOneId ==
    /\ \A m \in Range(outBowlMarkers) : IsSome(m.pattern_id)
    /\ Cardinality(CandidateIds) = 1

PositiveTimes == \A m \in Range(outBowlMarkers) : m.time > 0

\* The instances are the time-gap clusters of the candidates: every candidate
\* is in one instance, in ascending time order; neighbours within an instance
\* are at most 2,592,000 s apart; and any two instances are more than
\* 2,592,000 s apart.
TimeGapGrouped(map) ==
    /\ \A v \in Range(outBowlMarkers) \cup Range(Members(map)) :
          Count(Members(map), v) = Count(outBowlMarkers, v)
    /\ \A i \in 1..Len(map) :
          /\ Ascending(map[i].markers)
          /\ \A j \in 1..(Len(map[i].markers) - 1) :
                map[i].markers[j + 1].time - map[i].markers[j].time <= 2592000
    /\ \A i, k \in 1..Len(map) :
          i # k => \/ map[k].markers[1].time - Last(map[i].markers).time > 2592000
                   \/ map[i].markers[1].time - Last(map[k].markers).time > 2592000

\* C8: when there is a bowl candidate and all candidates carry one and the
\* same pattern_id, or none carries one, the instances are the time-gap
\* clusters of the candidates (stated for positive times).
C8_FallbackTrigger ==
    (/\ stage = "clustered"
     /\ outBowlMarkers # <<>>
     /\ AllLackId \/ AllShareOneId
     /\ PositiveTimes) => TimeGapGrouped(outBowls)

CarryingId(id) ==
    LET T(m) == IsSome(m.pattern_id) /\ Get(m.pattern_id) = id
    IN SelectSeq(outBowlMarkers, T)

LackingId ==
    LET T(m) == ~IsSome(m.pattern_id) IN SelectSeq(outBowlMarkers, T)

\* ms holds exactly the markers of group, in ascending time order.
IsInstanceOf(ms, group) ==
    /\ Len(ms) = Len(group)
    /\ \A v \in Range(ms) \cup Range(group) : Count(ms, v) = Count(group, v)
    /\ Ascending(ms)

\* C9: when the candidates carry more than one distinct pattern_id, there is
\* one instance per id, made of exactly the candidates carrying that id in
\* ascending time order, the candidates without an id form one more instance,
\* and there is no other instance.
C9_GroupingById ==
    (stage = "clustered" /\ Cardinality(CandidateIds) > 1) =>
        /\ \A id \in CandidateIds :
              \E i \in 1..Len(outBowls) : IsInstanceOf(outBowls[i].markers, CarryingId(id))
        /\ LackingId # <<>> =>
              \E i \in 1..Len(outBowls) : IsInstanceOf(outBowls[i].markers, LackingId)
        /\ Len(outBowls) = Cardinality(CandidateIds) + (IF LackingId # <<>> THEN 1 ELSE 0)

\* C10: in time-gap clustering over markers with positive times, neighbours
\* in ascending time order are in one cluster exactly if they are at most
\* 2,592,000 s apart.
C10_StrictThreshold ==
    (/\ stage = "clustered"
     /\ outBowlMarkers # <<>>
     /\ AllLackId
     /\ PositiveTimes) => TimeGapGrouped(outBowls)

\* A cluster holds neighbours exactly 2,592,000 s apart, and the next cluster
\* starts 2,592,001 s after it.
C10_Witness ==
    /\ stage = "clustered"
    /\ AllLackId
    /\ PositiveTimes
    /\ \E i \in 1..Len(outBowls) :
          \E j \in 1..(Len(outBowls[i].markers) - 1) :
              outBowls[i].markers[j + 1].time - outBowls[i].markers[j].time = 2592000
    /\ \E i, k \in 1..Len(outBowls) :
          outBowls[k].markers[1].time - Last(outBowls[i].markers).time = 2592001

\* No candidate carries a pattern_id other than -1: the grouping by id gives
\* the single entry -1 and the time-gap clustering runs.
OnlyMissingIds ==
    \A m \in Range(outBowlMarkers) : ~IsSome(m.pattern_id) \/ Get(m.pattern_id) = -1

\* C11: fallback numbering.  The clusters of the time-gap clustering have the
\* ids 1..k without a gap, the Map holds them in that order, and every marker
\* time of cluster c is at most every marker time of cluster c + 1.
C11_FallbackNumbering ==
    (stage = "clustered" /\ outBowlMarkers # <<>> /\ OnlyMissingIds) =>
        /\ {outBowls[i].id : i \in 1..Len(outBowls)} = 1..Len(outBowls)
        /\ \A i \in 1..Len(outBowls) : outBowls[i].id = i
        /\ \A i, k \in 1..Len(outBowls) :
              outBowls[k].id = outBowls[i].id + 1 =>
                  \A a \in Range(outBowls[i].markers), b \in Range(outBowls[k].markers) :
                      a.time <= b.time

\* Markers received out of time order are clustered into two clusters, the
\* later one with two members.
C11_Witness ==
    /\ stage = "clustered"
    /\ OnlyMissingIds
    /\ Len(inMarkers) = 3
    /\ inMarkers[1].time > inMarkers[2].time
    /\ Len(outBowls) = 2
    /\ Len(outBowls[2].markers) = 2

\* ---- colors ----
ColorOfKey(key) == lineSeries[patternSeriesRefs[key]].color

\* C12: color stability.  After every run, the series of every instance of
\* the run has the color palette[abs(id) mod 10], whether the run added the
\* series or found it in the mapping, and a series found in the mapping had
\* that color already.
C12_ColorStability ==
    [][\A i \in 1..Len(bowls') :
          LET k == String(bowls'[i].id)
              c == lineSeries'[patternSeriesRefs'[k]].color
          IN /\ c = bowlColors[(Abs(bowls'[i].id) % 10) + 1]
             /\ k \in DOMAIN patternSeriesRefs => c = ColorOfKey(k)]_vars

\* The last run drew one instance on a series of an earlier run and added a
\* series for another, one of them with a negative id.
C12_Witness ==
    /\ lastCycle.reused
    /\ lastCycle.created > 0
    /\ \E i \in 1..Len(bowls) : bowls[i].id < 0

\* C13: distinct colors.  Any two different instances of one run whose
\* curves are drawn have series of different colors.
C13_DistinctColors ==
    \A i, j \in 1..Len(bowls) :
        (/\ i # j
         /\ DataOf(String(bowls[i].id)) # <<>>
         /\ DataOf(String(bowls[j].id)) # <<>>)
            => ColorOfKey(String(bowls[i].id)) # ColorOfKey(String(bowls[j].id))

\* C14: idempotence.  A run with the price series, markers and title of the
\* run before it leaves the mapping, the data and color of every series, the
\* point-marker batch and the candles as they were, and adds no series.
C14_Idempotence ==
    [][(/\ chartCreated
        /\ chartWidth' = chartWidth
        /\ priceData' = priceData
        /\ markersProp' = markersProp
        /\ chartTitleProp' = chartTitleProp) =>
            /\ DOMAIN patternSeriesRefs' = DOMAIN patternSeriesRefs
            /\ patternSeriesRefs' = patternSeriesRefs
            /\ lineSeries' = lineSeries
            /\ seriesMarkers' = seriesMarkers
            /\ candlestickData' = candlestickData
            /\ bowls' = bowls
            /\ Len(lineSeries') = Len(lineSeries)]_vars

\* The last run repeated the props of the run before it, on a chart with two
\* drawn curves, an emptied series of an earlier run and point markers.
C14_Witness ==
    /\ lastCycle.repeated
    /\ lastCycle.reused
    /\ lastCycle.created = 0
    /\ Cardinality({k \in CurrentKeys : DataOf(k) # <<>>}) >= 1
    /\ \E k \in DOMAIN patternSeriesRefs : k \notin CurrentKeys

\* ---- curves ----
FirstMemberTime == CHOOSE t \in {m.time : m \in Range(inMarkers)} :
                      \A m \in Range(inMarkers) : t <= m.time

LastMemberTime == CHOOSE t \in {m.time : m \in Range(inMarkers)} :
                     \A m \in Range(inMarkers) : t >= m.time

InWindow(t) == FirstMemberTime - 2592000 <= t /\ t <= LastMemberTime + 2592000

WindowCandles == {c \in Range(inPriceData) : InWindow(c.time)}

\* C15: curve coverage.  The curve has exactly one point for each candle
\* whose time lies in [F - 2,592,000, L + 2,592,000], in strictly ascending
\* time order, and no point outside that window.
C15_CurveCoverage ==
    stage = "synthesized" =>
        /\ \A c \in WindowCandles :
              Cardinality({i \in 1..Len(outLineData) : outLineData[i].time = c.time}) = 1
        /\ \A i \in 1..Len(outLineData) :
              /\ InWindow(outLineData[i].time)
              /\ \E c \in WindowCandles : c.time = outLineData[i].time
        /\ \A i \in 1..(Len(outLineData) - 1) :
              outLineData[i].time < outLineData[i + 1].time

\* The series has a candle on each end of the window and one just outside
\* it, and the curve has the two points.
C15_Witness ==
    /\ stage = "synthesized"
    /\ \E c \in Range(inPriceData) : c.time = FirstMemberTime - 2592000
    /\ \E c \in Range(inPriceData) : c.time = LastMemberTime + 2592000
    /\ \E c \in Range(inPriceData) : ~InWindow(c.time)
    /\ Len(outLineData) = 2

\* The lows the claim names, taken from the candles of the window: the
\* least low, and the lows of the earliest and of the latest candle.
WindowMinLow ==
    CHOOSE v \in {c.low : c \in WindowCandles} : \A c \in WindowCandles : v <= c.low

WindowStartLow ==
    (CHOOSE c \in WindowCandles : \A d \in WindowCandles : c.time <= d.time).low

WindowEndLow ==
    (CHOOSE c \in WindowCandles : \A d \in WindowCandles : c.time >= d.time).low

LowAt(t) == (CHOOSE c \in WindowCandles : c.time = t).low

\* n <= v and v <= n for an integer n and a fraction v with v.den > 0.
AtLeast(v, n) == n * v.den <= v.num

AtMost(v, n) == v.num <= n * v.den

\* C16 as stated: every curve value v satisfies
\* minLow <= v <= max(startLow, endLow).
C16_CurveBoundedness ==
    stage = "synthesized" =>
        \A i \in 1..Len(outLineData) :
            /\ AtLeast(outLineData[i].value, WindowMinLow)
            /\ AtMost(outLineData[i].value, Max(WindowStartLow, WindowEndLow))

\* C16 amended: every curve value v satisfies
\* minLow <= v <= max(startLow, endLow, low of the point's own candle).
C16_CurveBoundednessAmended ==
    stage = "synthesized" =>
        \A i \in 1..Len(outLineData) :
            /\ outLineData[i].value.den > 0
            /\ AtLeast(outLineData[i].value, WindowMinLow)
            /\ AtMost(outLineData[i].value,
                      Max(Max(WindowStartLow, WindowEndLow),
                          LowAt(outLineData[i].time)))

\* A curve of three points whose middle value is above the lows of both end
\* candles and below the low of its own candle.
C16_Witness ==
    /\ stage = "synthesized"
    /\ Len(outLineData) = 3
    /\ ~AtMost(outLineData[2].value, Max(WindowStartLow, WindowEndLow))
    /\ ~AtLeast(outLineData[2].value, LowAt(outLineData[2].time))

\* ---- empty span ----
\* The candles of the last run's price series in the extended window of the
\* instance ms.
CandlesInWindowOf(ms) ==
    {c \in Range(priceData) :
        /\ c.time >= ms[1].time - 2592000
        /\ c.time <= Last(ms).time + 2592000}

\* C17: empty span.  After a run with a non-empty price series, the series
\* of an instance with no candle in its extended window has no points, and
\* the series of every instance with a candle in its window has one point
\* per such candle.
C17_EmptySpan ==
    (chartCreated /\ priceData # <<>>) =>
        \A i \in 1..Len(bowls) :
            LET k == String(bowls[i].id) IN
            /\ k \in DOMAIN patternSeriesRefs
            /\ CandlesInWindowOf(bowls[i].markers) = {} => DataOf(k) = <<>>
            /\ CandlesInWindowOf(bowls[i].markers) # {} =>
                  Len(DataOf(k)) = Cardinality(CandlesInWindowOf(bowls[i].markers))

\* The last run emptied the series of an instance of its own, which held the
\* curve of an earlier run, and drew the curve of another instance.
C17_Witness ==
    /\ priceData # <<>>
    /\ lastCycle.emptied
    /\ \E i \in 1..Len(bowls) :
          /\ CandlesInWindowOf(bowls[i].markers) = {}
          /\ DataOf(String(bowls[i].id)) = <<>>
    /\ \E i \in 1..Len(bowls) : DataOf(String(bowls[i].id)) # <<>>

\* ---- range lines and directions ----
IsRangeCandidate(m) == ~IsBowlCandidate(m, inTitle) /\ HasRangeFields(m)

IsPlainPoint(m) == ~IsBowlCandidate(m, inTitle) /\ ~HasRangeFields(m)

\* C18: range classification.  A marker that meets no bowl condition and has
\* all four range fields is not emitted in the point-marker batch: the batch
\* has one entry per plain-point marker and none at the time of a range
\* candidate.
C18_RangeClassification ==
    stage = "rendered" =>
        /\ Len(seriesMarkers)
              = Cardinality({i \in 1..Len(inMarkers) : IsPlainPoint(inMarkers[i])})
        /\ \A m \in Range(inMarkers) :
              IsRangeCandidate(m) =>
                  \A e \in Range(seriesMarkers) : e.time # m.time

\* data is the two-point line from (t1, v) to (t2, v).
IsSegment(data, t1, t2, v) ==
    /\ Len(data) = 2
    /\ data[1].time = t1 /\ data[1].value.num = v * data[1].value.den
    /\ data[2].time = t2 /\ data[2].value.num = v * data[2].value.den

\* The id a range candidate is keyed by: nrb_id when present, else its time.
RangeIdOf(m) == IF IsSome(m.nrb_id) THEN Get(m.nrb_id) ELSE m.time

\* C19: range segments.  Every range candidate has two series of its own in
\* the mapping, under keys that hold its range id: the high line from
\* (range_start_time, range_high) to (range_end_time, range_high) and the
\* low line from (range_start_time, range_low) to (range_end_time, range_low).
C19_RangeSegments ==
    stage = "rendered" =>
        \A m \in Range(inMarkers) :
            IsRangeCandidate(m) =>
                \E kh, kl \in DOMAIN patternSeriesRefs :
                    /\ kh # kl
                    /\ patternSeriesRefs[kh] # patternSeriesRefs[kl]
                    /\ includes(kh, String(RangeIdOf(m)))
                    /\ includes(kl, String(RangeIdOf(m)))
                    /\ IsSegment(DataOf(kh), Get(m.range_start_time),
                                 Get(m.range_end_time), Get(m.range_high))
                    /\ IsSegment(DataOf(kl), Get(m.range_start_time),
                                 Get(m.range_end_time), Get(m.range_low))

HasDirection(m, d) == IsSome(m.direction) /\ Get(m.direction) = d

\* The color and shape of the batch entries at the time of the marker m.
StylesOf(m) ==
    {<<e.color, e.shape>> : e \in {x \in Range(seriesMarkers) : x.time = m.time}}

\* The color and shape of a marker without a direction style: its own, or
\* the defaults.
OwnStyleOf(m) ==
    <<IF IsSome(m.color) THEN Get(m.color) ELSE "#2196F3",
      IF IsSome(m.shape) THEN Get(m.shape) ELSE "circle">>

\* C20: direction styling.  All plain-point markers with the direction
\* "Bullish Break" are emitted with one color and shape whatever their own,
\* all with "Bearish Break" with one other color and shape, and the
\* remaining ones with their own color and shape or the defaults.
C20_DirectionStyling ==
    stage = "rendered" =>
        \A m1, m2 \in {m \in Range(inMarkers) : IsPlainPoint(m)} :
            /\ StylesOf(m1) # {}
            /\ (HasDirection(m1, "Bullish Break") /\ HasDirection(m2, "Bullish Break"))
                  => StylesOf(m1) = StylesOf(m2) /\ Cardinality(StylesOf(m1)) = 1
            /\ (HasDirection(m1, "Bearish Break") /\ HasDirection(m2, "Bearish Break"))
                  => StylesOf(m1) = StylesOf(m2) /\ Cardinality(StylesOf(m1)) = 1
            /\ (HasDirection(m1, "Bullish Break") /\ HasDirection(m2, "Bearish Break"))
                  => StylesOf(m1) \cap StylesOf(m2) = {}
            /\ (~HasDirection(m1, "Bullish Break") /\ ~HasDirection(m1, "Bearish Break"))
                  => StylesOf(m1) = {OwnStyleOf(m1)}

\* ---- defaults ----
EntriesAt(t) == {e \in Range(seriesMarkers) : e.time = t}

\* C21 as stated: every plain-point marker is emitted, with position, color
\* and shape equal to its own value when present and to "belowBar",
\* "#2196F3" and "circle" when absent.
C21_DefaultsForMissingFields ==
    stage = "rendered" =>
        \A m \in {x \in Range(inMarkers) : IsPlainPoint(x)} :
            /\ EntriesAt(m.time) # {}
            /\ \A e \in EntriesAt(m.time) :
                  /\ e.position = IF IsSome(m.position) THEN Get(m.position) ELSE "belowBar"
                  /\ e.color = IF IsSome(m.color) THEN Get(m.color) ELSE "#2196F3"
                  /\ e.shape = IF IsSome(m.shape) THEN Get(m.shape) ELSE "circle"

Present(opt) == IsSome(opt) /\ Get(opt) # ""

\* C21 amended: every plain-point marker is emitted, as often as it is in
\* the list, with position, color and shape equal to its own value when
\* present and not the empty string, and to "belowBar", "#2196F3" and
\* "circle" when absent or empty.
C21_DefaultsForMissingFieldsAmended ==
    stage = "rendered" =>
        \A m \in {x \in Range(inMarkers) : IsPlainPoint(x)} :
            /\ Cardinality({i \in 1..Len(seriesMarkers) : seriesMarkers[i].time = m.time})
                  = Cardinality({i \in 1..Len(inMarkers) : inMarkers[i] = m})
            /\ \A e \in EntriesAt(m.time) :
                  /\ e.position = IF Present(m.position) THEN Get(m.position) ELSE "belowBar"
                  /\ e.color = IF Present(m.color) THEN Get(m.color) ELSE "#2196F3"
                  /\ e.shape = IF Present(m.shape) THEN Get(m.shape) ELSE "circle"

\* A marker with a position of its own, an empty color and no shape, and a
\* marker with no optional field at all, are both emitted.
C21_Witness ==
    /\ stage = "rendered"
    /\ \E m \in Range(inMarkers) :
          /\ IsSome(m.position) /\ m.color = Some("") /\ ~IsSome(m.shape)
          /\ \E e \in EntriesAt(m.time) :
                e.position = "aboveBar" /\ e.color = "#2196F3" /\ e.shape = "circle"
    /\ \E m \in Range(inMarkers) :
          /\ ~IsSome(m.position) /\ ~IsSome(m.color) /\ ~IsSome(m.shape)
          /\ ~IsSome(m.text) /\ ~IsSome(m.pattern_id) /\ ~IsSome(m.direction)
          /\ ~HasRangeFields(m)
          /\ EntriesAt(m.time) # {}

\* ---- resize ----
\* The chart after a run of the effect with the given props.
AfterRecompute(ch, price, markers, chartTitle) ==
    [ch EXCEPT !.surface = UpdateChartData(ch.surface, price, markers, chartTitle)]

\* C22: resize is a side channel.  A step that changes the width of the
\* chart leaves the mapping, every series' data and color, the point-marker
\* batch and the candles as they are; and in every state of the created
\* chart, a resize to another width followed by a run of the effect gives
\* the chart that the run followed by the resize gives.
C22_ResizeSideChannel ==
    /\ [][(chartCreated /\ chartWidth' # chartWidth) =>
             /\ patternSeriesRefs' = patternSeriesRefs
             /\ lineSeries' = lineSeries
             /\ seriesMarkers' = seriesMarkers
             /\ candlestickData' = candlestickData]_vars
    /\ [](chartCreated =>
             \A clientWidth \in {w \in Widths : Some(w) # chartWidth},
                price \in PriceSeries, markers \in LifeMarkerLists,
                chartTitle \in LifeTitles :
                 AfterRecompute(HandleResize(Chart, clientWidth),
                                price, markers, chartTitle)
                   = HandleResize(AfterRecompute(Chart, price, markers, chartTitle),
                                  clientWidth))

\* The chart shows a curve, the emptied series of an earlier run and point
\* markers at a width other than the one it was created with.
C22_Witness ==
    /\ chartCreated
    /\ chartWidth = Some(1200)
    /\ seriesMarkers # <<>>
    /\ \E k \in CurrentKeys : DataOf(k) # <<>>
    /\ \E k \in DOMAIN patternSeriesRefs : k \notin CurrentKeys

\* ---- identity spaces ----
\* The instances of a run over (markers, chartTitle) are inferred when the
\* time-gap clustering numbered them, explicit when the grouping by
\* pattern_id did.
InferredInstances(markers, chartTitle) ==
    LET bowlMarkers == bowlMarkersOf(markers, chartTitle) IN
    FallbackApplies(GroupByPatternId(bowlMarkers), bowlMarkers)

\* C23: separate identity spaces.  When a run draws an instance with the
\* source-supplied pattern_id n and the next run draws an instance inferred
\* by the time-gap clustering as cluster n, or the other way round, the two
\* instances are not drawn on the same series handle.
C23_SeparateIdentitySpaces ==
    [][\A i \in 1..Len(bowls), j \in 1..Len(bowls') :
          (/\ bowls[i].id = bowls'[j].id
           /\ InferredInstances(markersProp, chartTitleProp)
                # InferredInstances(markersProp', chartTitleProp'))
             => patternSeriesRefs'[String(bowls'[j].id)]
                  # patternSeriesRefs[String(bowls[i].id)]]_vars

\* ---- bowl depth ----
\* The 0-based position in the span of the first candle with the minimum low.
BottomIndex ==
    (CHOOSE i \in 1..Len(outLineData) :
        /\ LowAt(outLineData[i].time) = WindowMinLow
        /\ \A j \in 1..(i - 1) : LowAt(outLineData[j].time) # WindowMinLow) - 1

\* bowlDepth of the point at 0-based position idx of the synthesized curve.
DepthAt(idx) == BowlDepth(idx, Max(1, Len(outLineData) - 1), BottomIndex)

\* C24: bowl depth at the edges.  For a span of at least two candles,
\* bowlDepth is 1 at the candle with the minimum low and 0 at the first and
\* at the last candle of the span.
C24_BowlDepthAtEdges ==
    (stage = "synthesized" /\ Len(outLineData) >= 2) =>
        /\ DepthAt(BottomIndex).num = DepthAt(BottomIndex).den
        /\ DepthAt(0).num = 0
        /\ DepthAt(Len(outLineData) - 1).num = 0

PermutationsOf(seq) ==
    {[i \in 1..Len(seq) |-> seq[f[i]]] :
        f \in {g \in [1..Len(seq) -> 1..Len(seq)] :
                 \A i, j \in 1..Len(seq) : i # j => g[i] # g[j]}}

DistinctTimes(ms) == \A i, j \in 1..Len(ms) : i # j => ms[i].time # ms[j].time

\* C26: the fallback clustering is order-independent.  When the time-gap
\* clustering runs over markers with pairwise distinct times, every
\* permutation of the marker list gives the clusters found for the list
\* itself: the same numbers with the same members.
C26_FallbackOrderIndependence ==
    (/\ stage = "clustered"
     /\ outBowlMarkers # <<>>
     /\ OnlyMissingIds
     /\ DistinctTimes(inMarkers)) =>
        \A p \in PermutationsOf(inMarkers) :
            SortEntries(GroupBowls(bowlMarkersOf(p, inTitle))) = outBowls

\* Three markers with different times, received latest first, fall into two
\* clusters.
C26_Witness ==
    /\ stage = "clustered"
    /\ OnlyMissingIds
    /\ DistinctTimes(inMarkers)
    /\ Len(inMarkers) = 3
    /\ inMarkers[1].time > inMarkers[2].time
    /\ inMarkers[2].time > inMarkers[3].time
    /\ Len(outBowls) = 2

\* ---- the search box ----
\* C27: debounced search.  At most one timeout is pending, for the query of
\* the input; a step that changes the query leaves no timeout pending that
\* was pending before it; a step that calls searchSymbols calls it for the
\* query of the input, which is not empty and has not changed for
\* DEBOUNCE_MS; and a step that empties the query leaves no suggestions and
\* no timeout and calls nothing.  No timeout and no call is for the empty
\* query.
C27_DebouncedSearch ==
    /\ [](/\ Cardinality(timers) <= 1
          /\ \A t \in timers : t.query = query /\ t.query # <<>>
          /\ \A i \in 1..Len(searchCalls) : searchCalls[i] # <<>>)
    /\ [][/\ query' # query => timers' \cap timers = {}
          /\ searchHistory'.called > searchHistory.called =>
                /\ searchCalls' = Append(searchCalls, query)
                /\ query # <<>>
                /\ query' = query
                /\ searchClock >= DEBOUNCE_MS
          /\ (query' # query /\ query' = <<>>) =>
                /\ suggestions' = <<>>
                /\ timers' = {}
                /\ searchHistory'.called = searchHistory.called]_vars

\* After two timeouts were cleared while pending, the third has run for the
\* query of the input, left unchanged for the debounce interval; only this
\* one call of searchSymbols was made.
C27_Witness ==
    /\ searchHistory.timeouts = 3
    /\ searchHistory.cleared = 2
    /\ searchHistory.called = 1
    /\ searchCalls = <<query>>
    /\ searchClock = DEBOUNCE_MS
    /\ timers = {}

\* ---- the fetches of App ----
\* C28: the loading flag.  loading is true exactly while a call of
\* fetchFilteredData or fetchRaw is running: it is true from the start of the
\* call, before the request is sent, and false once the call has settled,
\* after a success as after a failure.
C28_FetchLoadingFlag == loading <=> fetches # {}

\* One fetch has run to its end and set the 52-week high, a later one has
\* failed, and none is running.
C28_Witness ==
    /\ ~loading
    /\ fetches = {}
    /\ IsSome(week52High)
    /\ error = Some("Network or other error during API call")

\* C29: a failed scan clears the chart.  A step in which a call of
\* fetchFilteredData ends at its request (the request threw) sets error,
\* empties priceData and markers and unsets isFilteredView, and the run of
\* the chart's effect that ends the step leaves every series of the mapping
\* without points and the point-marker batch empty.
C29_FailedScanClearsChart ==
    [][(/\ \E f \in fetches : /\ f.fn = "fetchFilteredData"
                              /\ f.awaiting = "fetchPatternScanData"
        /\ fetches' = {}) =>
            /\ IsSome(error')
            /\ appPriceData' = <<>>
            /\ appMarkers' = <<>>
            /\ ~isFilteredView'
            /\ priceData' = <<>>
            /\ \A k \in DOMAIN patternSeriesRefs' :
                  lineSeries'[patternSeriesRefs'[k]].data = <<>>
            /\ seriesMarkers' = <<>>]_vars

\* A scan has failed, and the run of the effect that followed took the
\* points from a series that showed a curve.
C29_Witness ==
    /\ error = Some("An unknown API error occurred")
    /\ fetches = {}
    /\ appPriceData = <<>>
    /\ ~isFilteredView
    /\ lastCycle.cleared
    /\ Len(lineSeries) >= 2
    /\ seriesMarkers = <<>>

\* C30: the 52-week high follows the symbol.  A week52High that is not null
\* is the value fetched for the symbol held in scrip.
C30_WeekHighFollowsSymbol ==
    IsSome(week52High) => Get(week52High) = Week52HighOf(scrip)

\* ---- SymbolSearch under races ----
\* No timeout is pending and no call of searchSymbols is awaited.
SearchQuiescent == timers = {} /\ searchCalls = <<>>

\* C31: the suggestions match the latest query.  Once no timeout is pending
\* and no call of searchSymbols is awaited, the suggestions are what the
\* search for the query of the input gives: nothing for the empty query,
\* and for any other query the symbols the backend answers with, or nothing
\* when the call failed.
C31_SuggestionsMatchLatestQuery ==
    SearchQuiescent =>
        \/ suggestions = <<>>
        \/ query # <<>> /\ suggestions = SearchResultOf(query)

\* C32: the loading indicator.  loading is true only while a timeout is
\* pending or a call of searchSymbols is awaited.
C32_SearchLoadingIndicator == searchLoading => ~SearchQuiescent

\* C33: a selection closes the dropdown.  From a selection until the user
\* next edits or focuses the input, onChange and onSelect were last called
\* with the selected symbol, which is the query, and the dropdown is closed.
C33_SelectionClosesDropdown ==
    searchHistory.sinceSelect =>
        /\ searchHistory.onChange = Some(query)
        /\ searchHistory.onSelect = Some(query)
        /\ ~open

\* ---- the chart under the form of App ----
\* C34: the overlays follow the fetched data.  A step that changes the
\* pattern of the dropdown or the text of the symbol, and neither the price
\* series nor the markers nor the requests that are running, leaves the
\* curves and the point markers on the chart as they were.
C34_OverlaysFollowFetchedData ==
    [][(/\ chartCreated
        /\ pattern' # pattern \/ scrip' # scrip
        /\ appPriceData' = appPriceData
        /\ appMarkers' = appMarkers
        /\ fetches' = fetches) =>
            Overlay(Surface)' = Overlay(Surface)]_vars

\* ---- the fallback at time 0 ----
\* C35: marker time 0 in the fallback.  When the time-gap fallback groups
\* the bowl markers, a marker at time 0 and the marker that follows it in
\* time order, at most TIME_CLUSTER_THRESHOLD seconds later, are markers of
\* one cluster.
C35_MarkerTimeZero ==
    (/\ stage = "clustered"
     /\ outBowlMarkers # <<>>
     /\ OnlyMissingIds) =>
        LET sorted == SortByTime(outBowlMarkers) IN
        \A i \in 1..(Len(sorted) - 1) :
            (/\ sorted[i].time = 0
             /\ sorted[i + 1].time > 0
             /\ sorted[i + 1].time <= TIME_CLUSTER_THRESHOLD) =>
                \E k \in 1..Len(outBowls) :
                    \E a, b \in 1..Len(outBowls[k].markers) :
                        /\ outBowls[k].markers[a].time = 0
                        /\ outBowls[k].markers[b] = sorted[i + 1]

====
